---- MODULE Spec2Model ----
(***************************************************************************)
(* A model of CubismModel (src/src/model/cubismmodel.ts): the parameter /  *)
(* part / drawable state layer of the Cubism Web Framework.  Indices are   *)
(* 0-based as in the source; a csmVector is a function on 0..size-1, a     *)
(* csmMap a function on its set of keys.                                   *)
(***************************************************************************)
EXTENDS Integers, Sequences, FiniteSets

VARIABLES
    model,                            \* _model: the snapshot handed to the constructor
    phase,                            \* "constructed" | "initialized" | "released" (_model is null)
    parameterValues,                  \* _parameterValues (the snapshot's array)
    partOpacities,                    \* _partOpacities (the snapshot's array)
    savedParameters,                  \* _savedParameters
    parameterIds,                     \* _parameterIds
    partIds,                          \* _partIds
    drawableIds,                      \* _drawableIds
    isOverriddenParameterRepeat,      \* _isOverriddenParameterRepeat
    isOverriddenModelMultiplyColors,  \* _isOverriddenModelMultiplyColors
    isOverriddenModelScreenColors,    \* _isOverriddenModelScreenColors
    isOverriddenCullings,             \* _isOverriddenCullings
    userParameterRepeatDataList,      \* _userParameterRepeatDataList
    userMultiplyColors,               \* _userMultiplyColors
    userScreenColors,                 \* _userScreenColors
    userCullings,                     \* _userCullings: references into cullingObjects
    cullingObjects,                   \* the DrawableCullingData objects allocated so far
    userPartMultiplyColors,           \* _userPartMultiplyColors
    userPartScreenColors,             \* _userPartScreenColors
    partChildDrawables,               \* _partChildDrawables
    notExistPartId,                   \* _notExistPartId
    notExistParameterId,              \* _notExistParameterId
    notExistParameterValues,          \* _notExistParameterValues
    notExistPartOpacities,            \* _notExistPartOpacities
    lastCall,                         \* history: the last public method called
    repeatOverrideCalls               \* history: targets of the repeat-override flag
                                      \* setters called so far (-1: model-wide)

vars == <<model, phase, parameterValues, partOpacities, savedParameters, parameterIds,
          partIds, drawableIds, isOverriddenParameterRepeat,
          isOverriddenModelMultiplyColors, isOverriddenModelScreenColors,
          isOverriddenCullings, userParameterRepeatDataList, userMultiplyColors,
          userScreenColors, userCullings, cullingObjects, userPartMultiplyColors,
          userPartScreenColors, partChildDrawables, notExistPartId,
          notExistParameterId, notExistParameterValues, notExistPartOpacities,
          lastCall, repeatOverrideCalls>>

paramVars == <<parameterValues, savedParameters, isOverriddenParameterRepeat,
               userParameterRepeatDataList, repeatOverrideCalls>>
absentVars == <<notExistPartId, notExistParameterId, notExistParameterValues,
                notExistPartOpacities, partOpacities>>
multiplyVars == <<isOverriddenModelMultiplyColors, userMultiplyColors,
                  userPartMultiplyColors>>
screenVars == <<isOverriddenModelScreenColors, userScreenColors,
                userPartScreenColors>>
cullingVars == <<isOverriddenCullings, userCullings, cullingObjects>>
handleVars == <<phase, parameterIds, partIds, drawableIds, partChildDrawables>>
registryVars == <<model, handleVars>>

----------------------------------------------------------------------------
(* csmVector and csmMap *)

Null == "null"
EmptyVector == << >>
getSize(v) == Cardinality(DOMAIN v)
pushBack(v, x) == [i \in 0..getSize(v) |-> IF i < getSize(v) THEN v[i] ELSE x]
\* The vector after pushBack of w[0], w[1], ... in turn.
pushBackEach(v, w) ==
    [i \in 0..(getSize(v) + getSize(w) - 1) |->
        IF i < getSize(v) THEN v[i] ELSE w[i - getSize(v)]]
EmptyMap == << >>
isExist(m, k) == k \in DOMAIN m
setValue(m, k, x) == [j \in DOMAIN m \cup {k} |-> IF j = k THEN x ELSE m[j]]
\* appendKey adds the key with a default value slot unless the key is present.
appendKey(m, k) == IF isExist(m, k) THEN m ELSE setValue(m, k, 0)

----------------------------------------------------------------------------
(* The loaded asset: the Live2DCubismCore.Model snapshot behind _model,    *)
(* the constructor's argument.  csmIsDoubleSided is bit 2 of constantFlags. *)

TextureColor(r, g, b, a) == [r |-> r, g |-> g, b |-> b, a |-> a]

AssetParameters ==
    [count |-> 2,
     ids |-> [i \in 0..1 |-> 100 + i],
     minimumValues |-> [i \in 0..1 |-> IF i = 0 THEN -30 ELSE 0],
     maximumValues |-> [i \in 0..1 |-> IF i = 0 THEN 30 ELSE 10],
     defaultValues |-> [i \in 0..1 |-> IF i = 0 THEN 0 ELSE 5],
     values |-> [i \in 0..1 |-> 0],
     repeats |-> [i \in 0..1 |-> IF i = 0 THEN 0 ELSE 1]]

AssetParts(n) ==
    [count |-> n,
     ids |-> [i \in 0..(n - 1) |-> 200 + i],
     parentIndices |-> [i \in 0..(n - 1) |-> i - 1],
     opacities |-> [i \in 0..(n - 1) |-> 1]]

AssetDrawables(parentPartIndices, constantFlags) ==
    [count |-> getSize(parentPartIndices),
     ids |-> [i \in DOMAIN parentPartIndices |-> 300 + i],
     parentPartIndices |-> parentPartIndices,
     constantFlags |-> constantFlags,
     multiplyColors |-> [i \in DOMAIN parentPartIndices |-> TextureColor(0, 1, 1, 1)],
     screenColors |-> [i \in DOMAIN parentPartIndices |-> TextureColor(1, 1, 0, 0)],
     dynamicFlags |-> [i \in DOMAIN parentPartIndices |-> 0]]

Asset(partCount, parentPartIndices, constantFlags) ==
    [parameters |-> AssetParameters,
     parts |-> AssetParts(partCount),
     drawables |-> AssetDrawables(parentPartIndices, constantFlags),
     updates |-> 0,
     releases |-> 0]

\* One part with one child drawable, and one drawable outside every part.
SmallAsset ==
    Asset(1, [d \in 0..1 |-> IF d = 0 THEN 0 ELSE -1],
             [d \in 0..1 |-> IF d = 0 THEN 0 ELSE 4])

ParameterIndices == 0..(model.parameters.count - 1)
PartIndices == 0..(model.parts.count - 1)
DrawableIndices == 0..(model.drawables.count - 1)

hasIsDoubleSidedBit(bitfield) == (bitfield \div 4) % 2 = 1

----------------------------------------------------------------------------
(* The records of the override store *)

ParameterRepeatData(isOverridden, isParameterRepeated) ==
    [isOverridden |-> isOverridden, isParameterRepeated |-> isParameterRepeated]
DrawableColorData(isOverridden, color) ==
    [isOverridden |-> isOverridden, color |-> color]
PartColorData(isOverridden, color) ==
    [isOverridden |-> isOverridden, color |-> color]
DrawableCullingData(isOverridden, isCulling) ==
    [isOverridden |-> isOverridden, isCulling |-> isCulling]

\* The history of a call that returned ret.
Called(op, args, ret) ==
    lastCall' = [op |-> op, args |-> args, ret |-> ret, threw |-> FALSE]
Void == "void"
\* The outcomes of a call that does not return: a TypeError thrown by a read
\* through null or undefined, and a failed CSM_ASSERT, which stops the call.
TypeError == "TypeError"
AssertionFailure == "AssertionFailure"
CSM_ASSERT(expr) == expr

\* A call that stops with an error before it has written anything.
Throws(op, args, error) ==
    /\ lastCall' = [op |-> op, args |-> args, ret |-> error, threw |-> TRUE]
    /\ UNCHANGED <<registryVars, paramVars, absentVars, multiplyVars, screenVars,
                   cullingVars>>

----------------------------------------------------------------------------
(* constructor *)

\* Mutant of InitWith: the model-wide parameter-repeat override starts off.
InitWith_RepeatOverrideOff(asset) ==
    /\ model = asset
    /\ phase = "constructed"
    /\ parameterValues = Null
    /\ partOpacities = Null
    /\ savedParameters = EmptyVector
    /\ parameterIds = EmptyVector
    /\ drawableIds = EmptyVector
    /\ partIds = EmptyVector
    /\ isOverriddenParameterRepeat = FALSE
    /\ isOverriddenModelMultiplyColors = FALSE
    /\ isOverriddenModelScreenColors = FALSE
    /\ isOverriddenCullings = FALSE
    /\ userParameterRepeatDataList = EmptyVector
    /\ userMultiplyColors = EmptyVector
    /\ userScreenColors = EmptyVector
    /\ userCullings = EmptyVector
    /\ cullingObjects = EmptyVector
    /\ userPartMultiplyColors = EmptyVector
    /\ userPartScreenColors = EmptyVector
    /\ partChildDrawables = EmptyVector
    /\ notExistPartId = EmptyMap
    /\ notExistParameterId = EmptyMap
    /\ notExistParameterValues = EmptyMap
    /\ notExistPartOpacities = EmptyMap
    /\ lastCall = [op |-> "constructor", args |-> << >>, ret |-> Void,
                   threw |-> FALSE]
    /\ repeatOverrideCalls = {}

InitWith(asset) ==
    /\ model = asset
    /\ phase = "constructed"
    /\ parameterValues = Null
    /\ partOpacities = Null
    /\ savedParameters = EmptyVector
    /\ parameterIds = EmptyVector
    /\ drawableIds = EmptyVector
    /\ partIds = EmptyVector
    /\ isOverriddenParameterRepeat = TRUE
    /\ isOverriddenModelMultiplyColors = FALSE
    /\ isOverriddenModelScreenColors = FALSE
    /\ isOverriddenCullings = FALSE
    /\ userParameterRepeatDataList = EmptyVector
    /\ userMultiplyColors = EmptyVector
    /\ userScreenColors = EmptyVector
    /\ userCullings = EmptyVector
    /\ cullingObjects = EmptyVector
    /\ userPartMultiplyColors = EmptyVector
    /\ userPartScreenColors = EmptyVector
    /\ partChildDrawables = EmptyVector
    /\ notExistPartId = EmptyMap
    /\ notExistParameterId = EmptyMap
    /\ notExistParameterValues = EmptyMap
    /\ notExistPartOpacities = EmptyMap
    /\ lastCall = [op |-> "constructor", args |-> << >>, ret |-> Void,
                   threw |-> FALSE]
    /\ repeatOverrideCalls = {}

----------------------------------------------------------------------------
(* initialize *)

getDrawableParentPartIndex(drawableIndex) ==
    model.drawables.parentPartIndices[drawableIndex]

\* Mutant of childDrawablesUpTo: a drawable without a parent part is put on
\* the list of part 0.
RECURSIVE childDrawablesUpTo_OrphansToPart0(_, _)
childDrawablesUpTo_OrphansToPart0(partIndex, n) ==
    IF n = 0 THEN EmptyVector
    ELSE LET rest == childDrawablesUpTo_OrphansToPart0(partIndex, n - 1)
             parentIndex == getDrawableParentPartIndex(n - 1)
         IN  IF parentIndex = partIndex \/ (parentIndex < 0 /\ partIndex = 0)
             THEN pushBack(rest, n - 1)
             ELSE rest

\* The child list of a part after the drawable loop has run over 0..n-1:
\* drawable i is pushed onto the list of its parent when that index is >= 0.
RECURSIVE childDrawablesUpTo(_, _)
childDrawablesUpTo(partIndex, n) ==
    IF n = 0 THEN EmptyVector
    ELSE LET rest == childDrawablesUpTo(partIndex, n - 1)
             parentIndex == getDrawableParentPartIndex(n - 1)
         IN  IF parentIndex >= 0 /\ parentIndex = partIndex
             THEN pushBack(rest, n - 1)
             ELSE rest

\* The number of initialize() calls the model follows on one instance.
MaxInitializations == 2

\* initialize has no once-only guard: every call pushes one entry per
\* parameter, part and drawable onto the lists, whatever they hold already.
\* The drawable loop pushes drawable i onto the list at(parentIndex), which is
\* the list the first call made.  _parameterValues and _partOpacities become
\* the snapshot's own arrays.
initialize ==
    IF ~CSM_ASSERT(phase # "released")
    THEN Throws("initialize", << >>, AssertionFailure)
    ELSE
    /\ getSize(cullingObjects) < MaxInitializations
    /\ phase' = "initialized"
    /\ UNCHANGED model
    /\ parameterValues' = model.parameters.values
    /\ partOpacities' = model.parts.opacities
    /\ parameterIds' =
           pushBackEach(parameterIds,
                        [i \in ParameterIndices |-> model.parameters.ids[i]])
    /\ userParameterRepeatDataList' =
           pushBackEach(userParameterRepeatDataList,
                        [i \in ParameterIndices |-> ParameterRepeatData(FALSE, FALSE)])
    /\ partIds' = pushBackEach(partIds, [i \in PartIndices |-> model.parts.ids[i]])
    /\ userPartMultiplyColors' =
           pushBackEach(userPartMultiplyColors,
                        [i \in PartIndices |->
                            PartColorData(FALSE, TextureColor(1, 1, 1, 1))])
    /\ userPartScreenColors' =
           pushBackEach(userPartScreenColors,
                        [i \in PartIndices |->
                            PartColorData(FALSE, TextureColor(0, 0, 0, 1))])
    /\ drawableIds' =
           pushBackEach(drawableIds,
                        [i \in DrawableIndices |-> model.drawables.ids[i]])
    /\ userMultiplyColors' =
           pushBackEach(userMultiplyColors,
                        [i \in DrawableIndices |->
                            DrawableColorData(FALSE, TextureColor(1, 1, 1, 1))])
    /\ userScreenColors' =
           pushBackEach(userScreenColors,
                        [i \in DrawableIndices |->
                            DrawableColorData(FALSE, TextureColor(0, 0, 0, 1))])
    \* one DrawableCullingData is constructed before the loop and the same
    \* object is pushed for every drawable
    /\ cullingObjects' = pushBack(cullingObjects, DrawableCullingData(FALSE, FALSE))
    /\ userCullings' =
           pushBackEach(userCullings,
                        [i \in DrawableIndices |-> getSize(cullingObjects)])
    /\ partChildDrawables' =
           LET grown == pushBackEach(partChildDrawables,
                                     [p \in PartIndices |-> EmptyVector])
           IN  [p \in DOMAIN grown |->
                   pushBackEach(grown[p],
                                childDrawablesUpTo(p, model.drawables.count))]
    /\ Called("initialize", << >>, Void)
    /\ UNCHANGED <<savedParameters, isOverriddenParameterRepeat, repeatOverrideCalls,
                   isOverriddenModelMultiplyColors, isOverriddenModelScreenColors,
                   isOverriddenCullings, notExistPartId, notExistParameterId,
                   notExistParameterValues, notExistPartOpacities>>

----------------------------------------------------------------------------
(* Multiply and screen colours *)

Ready == phase = "initialized"
Range(v) == {v[i] : i \in DOMAIN v}

getOverrideFlagForModelMultiplyColors == isOverriddenModelMultiplyColors
getOverrideFlagForModelScreenColors == isOverriddenModelScreenColors
getOverrideFlagForDrawableMultiplyColors(drawableindex) ==
    userMultiplyColors[drawableindex].isOverridden
getOverrideFlagForDrawableScreenColors(drawableindex) ==
    userScreenColors[drawableindex].isOverridden
getOverrideColorForPartMultiplyColors(partIndex) ==
    userPartMultiplyColors[partIndex].isOverridden
getOverrideColorForPartScreenColors(partIndex) ==
    userPartScreenColors[partIndex].isOverridden

getDrawableMultiplyColor(drawableIndex) == model.drawables.multiplyColors[drawableIndex]
getDrawableScreenColor(drawableIndex) == model.drawables.screenColors[drawableIndex]

\* Mutant of getMultiplyColor: the model-wide flag alone does not select the
\* override colour.
getMultiplyColor_NeedsDrawableFlag(index) ==
    IF getOverrideFlagForDrawableMultiplyColors(index)
    THEN userMultiplyColors[index].color
    ELSE getDrawableMultiplyColor(index)

getMultiplyColor(index) ==
    IF getOverrideFlagForModelMultiplyColors
         \/ getOverrideFlagForDrawableMultiplyColors(index)
    THEN userMultiplyColors[index].color
    ELSE getDrawableMultiplyColor(index)

getScreenColor(index) ==
    IF getOverrideFlagForModelScreenColors
         \/ getOverrideFlagForDrawableScreenColors(index)
    THEN userScreenColors[index].color
    ELSE getDrawableScreenColor(index)

\* Mutant of setMultiplyColorByRGBA: writing the colour also raises the
\* drawable's override flag.
setMultiplyColorByRGBA_RaisesFlag(index, r, g, b, a) ==
    IF index \notin DOMAIN userMultiplyColors
    THEN Throws("setMultiplyColorByRGBA", <<index, r, g, b, a>>, TypeError)
    ELSE
    /\ userMultiplyColors' =
           [userMultiplyColors EXCEPT
              ![index] = DrawableColorData(TRUE, TextureColor(r, g, b, a))]
    /\ Called("setMultiplyColorByRGBA", <<index, r, g, b, a>>, Void)
    /\ UNCHANGED <<registryVars, paramVars, absentVars, screenVars, cullingVars,
                   isOverriddenModelMultiplyColors, userPartMultiplyColors>>

setMultiplyColorByRGBA(index, r, g, b, a) ==
    IF index \notin DOMAIN userMultiplyColors
    THEN Throws("setMultiplyColorByRGBA", <<index, r, g, b, a>>, TypeError)
    ELSE
    /\ userMultiplyColors' =
           [userMultiplyColors EXCEPT ![index].color = TextureColor(r, g, b, a)]
    /\ Called("setMultiplyColorByRGBA", <<index, r, g, b, a>>, Void)
    /\ UNCHANGED <<registryVars, paramVars, absentVars, screenVars, cullingVars,
                   isOverriddenModelMultiplyColors, userPartMultiplyColors>>

setScreenColorByRGBA(index, r, g, b, a) ==
    IF index \notin DOMAIN userScreenColors
    THEN Throws("setScreenColorByRGBA", <<index, r, g, b, a>>, TypeError)
    ELSE
    /\ userScreenColors' =
           [userScreenColors EXCEPT ![index].color = TextureColor(r, g, b, a)]
    /\ Called("setScreenColorByRGBA", <<index, r, g, b, a>>, Void)
    /\ UNCHANGED <<registryVars, paramVars, absentVars, multiplyVars, cullingVars,
                   isOverriddenModelScreenColors, userPartScreenColors>>

\* Mutant of setPartColor: the children are overwritten whatever the part's flag.
setPartColor_AlwaysCascade(partIndex, r, g, b, a, partColors, drawableColors) ==
    LET children == Range(partChildDrawables[partIndex])
    IN  [partColors |->
            [partColors EXCEPT ![partIndex].color = TextureColor(r, g, b, a)],
         drawableColors |->
            [d \in DOMAIN drawableColors |->
                IF d \in children
                THEN [drawableColors[d] EXCEPT !.color = TextureColor(r, g, b, a)]
                ELSE drawableColors[d]]]

\* Mutant of setPartColor: the cascade also reaches the drawables of the
\* parts whose parent part is the given one.
setPartColor_ThroughChildParts(partIndex, r, g, b, a, partColors, drawableColors) ==
    LET newPartColors ==
            [partColors EXCEPT ![partIndex].color = TextureColor(r, g, b, a)]
        children ==
            Range(partChildDrawables[partIndex]) \cup
            UNION {Range(partChildDrawables[q]) :
                     q \in {q \in PartIndices : model.parts.parentIndices[q] = partIndex}}
    IN  [partColors |-> newPartColors,
         drawableColors |->
            IF newPartColors[partIndex].isOverridden
            THEN [d \in DOMAIN drawableColors |->
                    IF d \in children
                    THEN [drawableColors[d] EXCEPT !.color = TextureColor(r, g, b, a)]
                    ELSE drawableColors[d]]
            ELSE drawableColors]

\* setPartColor: the part's colour is stored; the children's colours are
\* overwritten when the part's flag is set.  Yields both lists.
setPartColor(partIndex, r, g, b, a, partColors, drawableColors) ==
    LET newPartColors ==
            [partColors EXCEPT ![partIndex].color = TextureColor(r, g, b, a)]
        children == Range(partChildDrawables[partIndex])
    IN  [partColors |-> newPartColors,
         drawableColors |->
            IF newPartColors[partIndex].isOverridden
            THEN [d \in DOMAIN drawableColors |->
                    IF d \in children
                    THEN [drawableColors[d] EXCEPT !.color = TextureColor(r, g, b, a)]
                    ELSE drawableColors[d]]
            ELSE drawableColors]

setPartMultiplyColorByRGBA(partIndex, r, g, b, a) ==
    IF partIndex \notin DOMAIN userPartMultiplyColors
    THEN Throws("setPartMultiplyColorByRGBA", <<partIndex, r, g, b, a>>, TypeError)
    ELSE
    /\ LET result == setPartColor(partIndex, r, g, b, a,
                                  userPartMultiplyColors, userMultiplyColors)
       IN  /\ userPartMultiplyColors' = result.partColors
           /\ userMultiplyColors' = result.drawableColors
    /\ Called("setPartMultiplyColorByRGBA", <<partIndex, r, g, b, a>>, Void)
    /\ UNCHANGED <<registryVars, paramVars, absentVars, screenVars, cullingVars,
                   isOverriddenModelMultiplyColors>>

setPartScreenColorByRGBA(partIndex, r, g, b, a) ==
    IF partIndex \notin DOMAIN userPartScreenColors
    THEN Throws("setPartScreenColorByRGBA", <<partIndex, r, g, b, a>>, TypeError)
    ELSE
    /\ LET result == setPartColor(partIndex, r, g, b, a,
                                  userPartScreenColors, userScreenColors)
       IN  /\ userPartScreenColors' = result.partColors
           /\ userScreenColors' = result.drawableColors
    /\ Called("setPartScreenColorByRGBA", <<partIndex, r, g, b, a>>, Void)
    /\ UNCHANGED <<registryVars, paramVars, absentVars, multiplyVars, cullingVars,
                   isOverriddenModelScreenColors>>

setOverrideFlagForModelMultiplyColors(value) ==
    /\ isOverriddenModelMultiplyColors' = value
    /\ Called("setOverrideFlagForModelMultiplyColors", <<value>>, Void)
    /\ UNCHANGED <<registryVars, paramVars, absentVars, screenVars, cullingVars,
                   userMultiplyColors, userPartMultiplyColors>>

setOverrideFlagForModelScreenColors(value) ==
    /\ isOverriddenModelScreenColors' = value
    /\ Called("setOverrideFlagForModelScreenColors", <<value>>, Void)
    /\ UNCHANGED <<registryVars, paramVars, absentVars, multiplyVars, cullingVars,
                   userScreenColors, userPartScreenColors>>

setOverrideFlagForDrawableMultiplyColors(drawableindex, value) ==
    IF drawableindex \notin DOMAIN userMultiplyColors
    THEN Throws("setOverrideFlagForDrawableMultiplyColors", <<drawableindex, value>>, TypeError)
    ELSE
    /\ userMultiplyColors' =
           [userMultiplyColors EXCEPT ![drawableindex].isOverridden = value]
    /\ Called("setOverrideFlagForDrawableMultiplyColors", <<drawableindex, value>>, Void)
    /\ UNCHANGED <<registryVars, paramVars, absentVars, screenVars, cullingVars,
                   isOverriddenModelMultiplyColors, userPartMultiplyColors>>

setOverrideFlagForDrawableScreenColors(drawableindex, value) ==
    IF drawableindex \notin DOMAIN userScreenColors
    THEN Throws("setOverrideFlagForDrawableScreenColors", <<drawableindex, value>>, TypeError)
    ELSE
    /\ userScreenColors' =
           [userScreenColors EXCEPT ![drawableindex].isOverridden = value]
    /\ Called("setOverrideFlagForDrawableScreenColors", <<drawableindex, value>>, Void)
    /\ UNCHANGED <<registryVars, paramVars, absentVars, multiplyVars, cullingVars,
                   isOverriddenModelScreenColors, userPartScreenColors>>

\* Mutant of setOverrideColorForPartColors: a disable leaves the children's
\* flags alone.
setOverrideColorForPartColors_KeepChildFlag(partIndex, value, partColors, drawableColors) ==
    LET newPartColors == [partColors EXCEPT ![partIndex].isOverridden = value]
        children == Range(partChildDrawables[partIndex])
    IN  [partColors |-> newPartColors,
         drawableColors |->
            [d \in DOMAIN drawableColors |->
                IF d \in children /\ value
                THEN DrawableColorData(value, newPartColors[partIndex].color)
                ELSE drawableColors[d]]]

\* Mutant of setOverrideColorForPartColors: the alpha component is not copied.
setOverrideColorForPartColors_NoAlpha(partIndex, value, partColors, drawableColors) ==
    LET newPartColors == [partColors EXCEPT ![partIndex].isOverridden = value]
        children == Range(partChildDrawables[partIndex])
    IN  [partColors |-> newPartColors,
         drawableColors |->
            [d \in DOMAIN drawableColors |->
                IF d \in children
                THEN IF value
                     THEN DrawableColorData(value,
                              TextureColor(newPartColors[partIndex].color.r,
                                           newPartColors[partIndex].color.g,
                                           newPartColors[partIndex].color.b,
                                           drawableColors[d].color.a))
                     ELSE [drawableColors[d] EXCEPT !.isOverridden = value]
                ELSE drawableColors[d]]]

\* Mutant of setOverrideColorForPartColors: the flag reaches the children and
\* the part's colour does not.
setOverrideColorForPartColors_FlagOnly(partIndex, value, partColors, drawableColors) ==
    LET newPartColors == [partColors EXCEPT ![partIndex].isOverridden = value]
        children == Range(partChildDrawables[partIndex])
    IN  [partColors |-> newPartColors,
         drawableColors |->
            [d \in DOMAIN drawableColors |->
                IF d \in children
                THEN [drawableColors[d] EXCEPT !.isOverridden = value]
                ELSE drawableColors[d]]]

\* setOverrideColorForPartColors: the part's flag is stored and written to
\* every child; the part's colour is copied to the children when value is true.
setOverrideColorForPartColors(partIndex, value, partColors, drawableColors) ==
    LET newPartColors == [partColors EXCEPT ![partIndex].isOverridden = value]
        children == Range(partChildDrawables[partIndex])
    IN  [partColors |-> newPartColors,
         drawableColors |->
            [d \in DOMAIN drawableColors |->
                IF d \in children
                THEN IF value
                     THEN DrawableColorData(value,
                              TextureColor(newPartColors[partIndex].color.r,
                                           newPartColors[partIndex].color.g,
                                           newPartColors[partIndex].color.b,
                                           newPartColors[partIndex].color.a))
                     ELSE [drawableColors[d] EXCEPT !.isOverridden = value]
                ELSE drawableColors[d]]]

setOverrideColorForPartMultiplyColors(partIndex, value) ==
    IF partIndex \notin DOMAIN userPartMultiplyColors
    THEN Throws("setOverrideColorForPartMultiplyColors", <<partIndex, value>>, TypeError)
    ELSE
    /\ LET flagged == [userPartMultiplyColors EXCEPT ![partIndex].isOverridden = value]
           result == setOverrideColorForPartColors(partIndex, value,
                                                   flagged, userMultiplyColors)
       IN  /\ userPartMultiplyColors' = result.partColors
           /\ userMultiplyColors' = result.drawableColors
    /\ Called("setOverrideColorForPartMultiplyColors", <<partIndex, value>>, Void)
    /\ UNCHANGED <<registryVars, paramVars, absentVars, screenVars, cullingVars,
                   isOverriddenModelMultiplyColors>>

setOverrideColorForPartScreenColors(partIndex, value) ==
    IF partIndex \notin DOMAIN userPartScreenColors
    THEN Throws("setOverrideColorForPartScreenColors", <<partIndex, value>>, TypeError)
    ELSE
    /\ LET flagged == [userPartScreenColors EXCEPT ![partIndex].isOverridden = value]
           result == setOverrideColorForPartColors(partIndex, value,
                                                   flagged, userScreenColors)
       IN  /\ userPartScreenColors' = result.partColors
           /\ userScreenColors' = result.drawableColors
    /\ Called("setOverrideColorForPartScreenColors", <<partIndex, value>>, Void)
    /\ UNCHANGED <<registryVars, paramVars, absentVars, multiplyVars, cullingVars,
                   isOverriddenModelScreenColors>>

\* The colours the application passes in: each differs from the colour the
\* records start with, and between them they differ in all four components.
MultiplyInputColors == {TextureColor(1, 0, 0, 1)}
ScreenInputColors == {TextureColor(1, 1, 1, 0)}

NextColor ==
    \/ initialize
    \/ \E d \in DrawableIndices, c \in MultiplyInputColors :
          setMultiplyColorByRGBA(d, c.r, c.g, c.b, c.a)
    \/ \E d \in DrawableIndices, c \in ScreenInputColors :
          setScreenColorByRGBA(d, c.r, c.g, c.b, c.a)
    \/ \E p \in PartIndices, c \in MultiplyInputColors :
          setPartMultiplyColorByRGBA(p, c.r, c.g, c.b, c.a)
    \/ \E p \in PartIndices, c \in ScreenInputColors :
          setPartScreenColorByRGBA(p, c.r, c.g, c.b, c.a)
    \/ \E value \in BOOLEAN : setOverrideFlagForModelMultiplyColors(value)
    \/ \E value \in BOOLEAN : setOverrideFlagForModelScreenColors(value)
    \/ \E d \in DrawableIndices, value \in BOOLEAN :
          setOverrideFlagForDrawableMultiplyColors(d, value)
    \/ \E d \in DrawableIndices, value \in BOOLEAN :
          setOverrideFlagForDrawableScreenColors(d, value)
    \/ \E p \in PartIndices, value \in BOOLEAN :
          setOverrideColorForPartMultiplyColors(p, value)
    \/ \E p \in PartIndices, value \in BOOLEAN :
          setOverrideColorForPartScreenColors(p, value)

SpecColor == InitWith(SmallAsset) /\ [][NextColor]_vars

----------------------------------------------------------------------------
(* Culling *)

getOverrideFlagForModelCullings == isOverriddenCullings
getOverrideFlagForDrawableCullings(drawableIndex) ==
    cullingObjects[userCullings[drawableIndex]].isOverridden

\* Mutant of getDrawableCulling: the drawable's own flag alone does not select
\* the override value.
getDrawableCulling_ModelFlagOnly(drawableIndex) ==
    IF getOverrideFlagForModelCullings
    THEN cullingObjects[userCullings[drawableIndex]].isCulling
    ELSE ~hasIsDoubleSidedBit(model.drawables.constantFlags[drawableIndex])

getDrawableCulling(drawableIndex) ==
    IF getOverrideFlagForModelCullings
         \/ getOverrideFlagForDrawableCullings(drawableIndex)
    THEN cullingObjects[userCullings[drawableIndex]].isCulling
    ELSE ~hasIsDoubleSidedBit(model.drawables.constantFlags[drawableIndex])

setDrawableCulling(drawableIndex, isCulling) ==
    IF drawableIndex \notin DOMAIN userCullings
    THEN Throws("setDrawableCulling", <<drawableIndex, isCulling>>, TypeError)
    ELSE
    /\ cullingObjects' =
           [cullingObjects EXCEPT ![userCullings[drawableIndex]].isCulling = isCulling]
    /\ Called("setDrawableCulling", <<drawableIndex, isCulling>>, Void)
    /\ UNCHANGED <<registryVars, paramVars, absentVars, multiplyVars, screenVars,
                   isOverriddenCullings, userCullings>>

setOverrideFlagForModelCullings(isOverriddenCullings_) ==
    /\ isOverriddenCullings' = isOverriddenCullings_
    /\ Called("setOverrideFlagForModelCullings", <<isOverriddenCullings_>>, Void)
    /\ UNCHANGED <<registryVars, paramVars, absentVars, multiplyVars, screenVars,
                   userCullings, cullingObjects>>

setOverrideFlagForDrawableCullings(drawableIndex, isOverriddenCullings_) ==
    IF drawableIndex \notin DOMAIN userCullings
    THEN Throws("setOverrideFlagForDrawableCullings", <<drawableIndex, isOverriddenCullings_>>, TypeError)
    ELSE
    /\ cullingObjects' =
           [cullingObjects EXCEPT
              ![userCullings[drawableIndex]].isOverridden = isOverriddenCullings_]
    /\ Called("setOverrideFlagForDrawableCullings",
              <<drawableIndex, isOverriddenCullings_>>, Void)
    /\ UNCHANGED <<registryVars, paramVars, absentVars, multiplyVars, screenVars,
                   isOverriddenCullings, userCullings>>

\* Assets of three drawables with every combination of double-sided bits.
CullingAssets ==
    {Asset(1, [d \in 0..2 |-> IF d < 2 THEN 0 ELSE -1], flags) :
        flags \in [0..2 -> {0, 4}]}

InitCulling == \E asset \in CullingAssets : InitWith(asset)

NextCulling ==
    \/ initialize
    \/ \E d \in DrawableIndices, isCulling \in BOOLEAN :
          setDrawableCulling(d, isCulling)
    \/ \E value \in BOOLEAN : setOverrideFlagForModelCullings(value)
    \/ \E d \in DrawableIndices, value \in BOOLEAN :
          setOverrideFlagForDrawableCullings(d, value)

SpecCulling == InitCulling /\ [][NextCulling]_vars

----------------------------------------------------------------------------
(* CubismMath *)

\* A number that may be NaN.
NaN == [isNaN |-> TRUE, number |-> 0]
Number(x) == [isNaN |-> FALSE, number |-> x]
Abs(x) == IF x < 0 THEN -x ELSE x
Sign(x) == IF x < 0 THEN -1 ELSE IF x > 0 THEN 1 ELSE 0

\* The remainder with the sign of the dividend; not a number for divisor 0.
mod(dividend, divisor) ==
    IF divisor = 0 THEN NaN
    ELSE Number(Sign(dividend) * (Abs(dividend) % Abs(divisor)))

clamp(value, min, max) ==
    IF value < min THEN min ELSE IF max < value THEN max ELSE value

\* A weight is a rational number num/den.
Weight(num, den) == [num |-> num, den |-> den]
One == Weight(1, 1)
Zero == Weight(0, 1)

\* current * (1 - weight) + value * weight
Blend(current, value, weight) ==
    (current * (weight.den - weight.num) + value * weight.num) \div weight.den
\* The model holds integers: a call is taken when its result is one.
Exact(current, value, weight) ==
    (current * (weight.den - weight.num) + value * weight.num) % weight.den = 0

----------------------------------------------------------------------------
(* Index registries and the absent-identifier tables *)

getParameterCount == model.parameters.count
getPartCount == model.parts.count
getDrawableCount == model.drawables.count

\* The first index of the id list holding the id, or -1.
\* The identifier registry keeps one handle per name; a handle is written as
\* the name it stands for.
getId(id) == id

getParameterId(parameterIndex) == getId(model.parameters.ids[parameterIndex])
getPartId(partIndex) == getId(model.parts.ids[partIndex])
getDrawableId(drawableIndex) == getId(model.drawables.ids[drawableIndex])

\* Mutant of IndexIn: the search loop starts at the second entry.
IndexIn_FromSecond(ids, count, id) ==
    LET holds(i) == i \in DOMAIN ids /\ ids[i] = id
    IN  IF \E i \in 1..(count - 1) : holds(i)
        THEN CHOOSE i \in 1..(count - 1) :
                holds(i) /\ \A j \in 1..(i - 1) : ~holds(j)
        ELSE -1

\* The first index below count whose identifier is the given one, -1 when
\* there is none.  at(i) past the end of the list holds no identifier.
IndexIn(ids, count, id) ==
    LET holds(i) == i \in DOMAIN ids /\ ids[i] = id
    IN  IF \E i \in 0..(count - 1) : holds(i)
        THEN CHOOSE i \in 0..(count - 1) :
                holds(i) /\ \A j \in 0..(i - 1) : ~holds(j)
        ELSE -1

\* Mutant of getParameterIndex_: the table of absent identifiers is not
\* consulted, so an unknown identifier is allocated on every lookup.
getParameterIndex_AlwaysAllocates(parameterId) ==
    LET found == IndexIn(parameterIds, model.parameters.count, parameterId)
        parameterIndex == model.parameters.count + getSize(notExistParameterId)
    IN  IF found >= 0
        THEN [ret |-> found, ids |-> notExistParameterId,
              values |-> notExistParameterValues]
        ELSE [ret |-> parameterIndex,
              ids |-> setValue(notExistParameterId, parameterId, parameterIndex),
              values |-> appendKey(notExistParameterValues, parameterIndex)]

\* getParameterIndex: the index returned and the tables it leaves.
getParameterIndex_(parameterId) ==
    LET found == IndexIn(parameterIds, model.parameters.count, parameterId)
        parameterIndex == model.parameters.count + getSize(notExistParameterId)
    IN  IF found >= 0
        THEN [ret |-> found, ids |-> notExistParameterId,
              values |-> notExistParameterValues]
        ELSE IF isExist(notExistParameterId, parameterId)
        THEN [ret |-> notExistParameterId[parameterId], ids |-> notExistParameterId,
              values |-> notExistParameterValues]
        ELSE [ret |-> parameterIndex,
              ids |-> setValue(notExistParameterId, parameterId, parameterIndex),
              values |-> appendKey(notExistParameterValues, parameterIndex)]

\* getPartIndex: the index returned and the tables it leaves.
getPartIndex_(partId) ==
    LET found == IndexIn(partIds, model.parts.count, partId)
        partIndex == model.parts.count + getSize(notExistPartId)
    IN  IF found >= 0
        THEN [ret |-> found, ids |-> notExistPartId, values |-> notExistPartOpacities]
        ELSE IF isExist(notExistPartId, partId)
        THEN [ret |-> notExistPartId[partId], ids |-> notExistPartId,
              values |-> notExistPartOpacities]
        ELSE [ret |-> partIndex,
              ids |-> setValue(notExistPartId, partId, partIndex),
              values |-> appendKey(notExistPartOpacities, partIndex)]

\* Mutant of getDrawableIndex_: an unknown identifier is given the index
\* past the last drawable.
getDrawableIndex_CountForUnknown(drawableId) ==
    LET found == IndexIn(drawableIds, model.drawables.count, drawableId)
    IN  IF found >= 0 THEN found ELSE model.drawables.count

\* getDrawableIndex: the index returned; there is no table of absent drawables.
getDrawableIndex_(drawableId) ==
    IndexIn(drawableIds, model.drawables.count, drawableId)

getDrawableIndex(drawableId) ==
    IF phase = "released"
    THEN Throws("getDrawableIndex", <<drawableId>>, TypeError)
    ELSE
    /\ Called("getDrawableIndex", <<drawableId>>, getDrawableIndex_(drawableId))
    /\ UNCHANGED <<registryVars, paramVars, absentVars, multiplyVars, screenVars,
                   cullingVars>>

\* Mutant of getParameterIndex: an identifier that gets an absent index is
\* also pushed onto the list of parameter identifiers.
getParameterIndex_RegistersId(parameterId) ==
    IF phase = "released"
    THEN Throws("getParameterIndex", <<parameterId>>, TypeError)
    ELSE
    /\ LET call == getParameterIndex_(parameterId)
       IN  /\ notExistParameterId' = call.ids
           /\ notExistParameterValues' = call.values
           /\ parameterIds' = IF call.ids = notExistParameterId THEN parameterIds
                              ELSE pushBack(parameterIds, parameterId)
           /\ Called("getParameterIndex", <<parameterId>>, call.ret)
    /\ UNCHANGED <<model, phase, partIds, drawableIds, partChildDrawables,
                   paramVars, multiplyVars, screenVars, cullingVars,
                   notExistPartId, notExistPartOpacities, partOpacities>>

getParameterIndex(parameterId) ==
    IF phase = "released"
    THEN Throws("getParameterIndex", <<parameterId>>, TypeError)
    ELSE
    /\ LET call == getParameterIndex_(parameterId)
       IN  /\ notExistParameterId' = call.ids
           /\ notExistParameterValues' = call.values
           /\ Called("getParameterIndex", <<parameterId>>, call.ret)
    /\ UNCHANGED <<registryVars, paramVars, multiplyVars, screenVars, cullingVars,
                   notExistPartId, notExistPartOpacities, partOpacities>>

getPartIndex(partId) ==
    IF phase = "released"
    THEN Throws("getPartIndex", <<partId>>, TypeError)
    ELSE
    /\ LET call == getPartIndex_(partId)
       IN  /\ notExistPartId' = call.ids
           /\ notExistPartOpacities' = call.values
           /\ Called("getPartIndex", <<partId>>, call.ret)
    /\ UNCHANGED <<registryVars, paramVars, multiplyVars, screenVars, cullingVars,
                   notExistParameterId, notExistParameterValues, partOpacities>>

----------------------------------------------------------------------------
(* Part opacities *)


\* setPartOpacityByIndex on given tables: the absent slot and the snapshot array.
setPartOpacityByIndex_(partIndex, opacity, absentOpacities) ==
    IF isExist(absentOpacities, partIndex)
    THEN [absent |-> setValue(absentOpacities, partIndex, opacity),
          opacities |-> partOpacities]
    ELSE [absent |-> absentOpacities,
          opacities |-> [partOpacities EXCEPT ![partIndex] = opacity]]

\* CSM_ASSERT(0 <= index && index < count): the && stops at a negative index,
\* so the count is read through _model, null after release, only for an
\* index of 0 or more.
RangeAssertion(index, count) ==
    IF ~CSM_ASSERT(0 <= index) THEN AssertionFailure
    ELSE IF phase = "released" THEN TypeError
    ELSE IF ~CSM_ASSERT(index < count) THEN AssertionFailure
    ELSE Void

\* How a by-index accessor ends on an index that is no absent one: the range
\* assertion, and then the access that follows it, which indexes the
\* snapshot's array, null before initialize.
AccessOutcome(index, count) ==
    IF RangeAssertion(index, count) # Void THEN RangeAssertion(index, count)
    ELSE IF phase = "constructed" THEN TypeError
    ELSE Void

\* _partOpacities is the snapshot's own array: what is written through the
\* one is read through the other.
WithPartOpacities(opacities) ==
    IF phase = "initialized" THEN [model EXCEPT !.parts.opacities = opacities]
    ELSE model

getPartOpacityByIndex(partIndex) ==
    IF isExist(notExistPartOpacities, partIndex)
    THEN notExistPartOpacities[partIndex]
    ELSE IF AccessOutcome(partIndex, getPartCount) = Void
    THEN partOpacities[partIndex]
    ELSE AccessOutcome(partIndex, getPartCount)

\* A call of the getter: nothing but the returned value.
getPartOpacityByIndexCall(partIndex) ==
    IF ~isExist(notExistPartOpacities, partIndex)
         /\ AccessOutcome(partIndex, getPartCount) # Void
    THEN Throws("getPartOpacityByIndex", <<partIndex>>,
                AccessOutcome(partIndex, getPartCount))
    ELSE
    /\ Called("getPartOpacityByIndex", <<partIndex>>, getPartOpacityByIndex(partIndex))
    /\ UNCHANGED <<registryVars, paramVars, absentVars, multiplyVars, screenVars,
                   cullingVars>>

\* Mutant of setPartOpacityByIndex: the range assertion only reports, and the
\* call returns normally.
setPartOpacityByIndex_AssertReports(partIndex, opacity) ==
    LET outcome == IF isExist(notExistPartOpacities, partIndex) THEN Void
                   ELSE AccessOutcome(partIndex, getPartCount)
    IN  IF outcome = TypeError
        THEN Throws("setPartOpacityByIndex", <<partIndex, opacity>>, outcome)
        ELSE /\ LET call == setPartOpacityByIndex_(partIndex, opacity,
                                                   notExistPartOpacities)
                IN  IF outcome = Void
                    THEN /\ notExistPartOpacities' = call.absent
                         /\ partOpacities' = call.opacities
                         /\ model' = WithPartOpacities(call.opacities)
                    ELSE UNCHANGED <<notExistPartOpacities, partOpacities, model>>
             /\ Called("setPartOpacityByIndex", <<partIndex, opacity>>, Void)
             /\ UNCHANGED <<handleVars, paramVars, multiplyVars, screenVars,
                            cullingVars, notExistPartId, notExistParameterId,
                            notExistParameterValues>>

setPartOpacityByIndex(partIndex, opacity) ==
    LET outcome == IF isExist(notExistPartOpacities, partIndex) THEN Void
                   ELSE AccessOutcome(partIndex, getPartCount)
    IN  IF outcome # Void
        THEN Throws("setPartOpacityByIndex", <<partIndex, opacity>>, outcome)
        ELSE /\ LET call == setPartOpacityByIndex_(partIndex, opacity,
                                                   notExistPartOpacities)
                IN  /\ notExistPartOpacities' = call.absent
                    /\ partOpacities' = call.opacities
                    /\ model' = WithPartOpacities(call.opacities)
             /\ Called("setPartOpacityByIndex", <<partIndex, opacity>>, Void)
             /\ UNCHANGED <<handleVars, paramVars, multiplyVars, screenVars,
                            cullingVars, notExistPartId, notExistParameterId,
                            notExistParameterValues>>

\* setPartOpacityById: getPartIndex, then setPartOpacityByIndex on the index
\* it returned, which is a real one or an absent one.
setPartOpacityById(partId, opacity) ==
    IF phase = "released"
    THEN Throws("setPartOpacityById", <<partId, opacity>>, TypeError)
    ELSE
    /\ LET lookup == getPartIndex_(partId)
           call == setPartOpacityByIndex_(lookup.ret, opacity, lookup.values)
       IN  /\ notExistPartId' = lookup.ids
           /\ IF lookup.ret < 0
              THEN /\ notExistPartOpacities' = lookup.values
                   /\ partOpacities' = partOpacities
                   /\ model' = model
              ELSE /\ notExistPartOpacities' = call.absent
                   /\ partOpacities' = call.opacities
                   /\ model' = WithPartOpacities(call.opacities)
    /\ Called("setPartOpacityById", <<partId, opacity>>, Void)
    /\ UNCHANGED <<handleVars, paramVars, multiplyVars, screenVars, cullingVars,
                   notExistParameterId, notExistParameterValues>>

\* getPartOpacityById looks the identifier up, which may allocate it.
getPartOpacityById(partId) ==
    IF phase = "released"
    THEN Throws("getPartOpacityById", <<partId>>, TypeError)
    ELSE
    /\ LET lookup == getPartIndex_(partId)
       IN  /\ notExistPartId' = lookup.ids
           /\ notExistPartOpacities' = lookup.values
           /\ Called("getPartOpacityById", <<partId>>,
                     IF lookup.ret < 0 THEN 0
                     ELSE IF isExist(lookup.values, lookup.ret)
                     THEN lookup.values[lookup.ret]
                     ELSE partOpacities[lookup.ret])
    /\ UNCHANGED <<registryVars, paramVars, multiplyVars, screenVars, cullingVars,
                   notExistParameterId, notExistParameterValues, partOpacities>>

----------------------------------------------------------------------------
(* Parameter values and the repeat policy *)

\* _parameterValues is the snapshot's own array: what is written through the
\* one is read through the other.
WithParameterValues(values) ==
    IF phase = "initialized" THEN [model EXCEPT !.parameters.values = values]
    ELSE model

getParameterValueByIndex(parameterIndex) ==
    IF isExist(notExistParameterValues, parameterIndex)
    THEN notExistParameterValues[parameterIndex]
    ELSE IF AccessOutcome(parameterIndex, getParameterCount) = Void
    THEN parameterValues[parameterIndex]
    ELSE AccessOutcome(parameterIndex, getParameterCount)

\* A call of the getter: nothing but the returned value.
getParameterValueByIndexCall(parameterIndex) ==
    IF ~isExist(notExistParameterValues, parameterIndex)
         /\ AccessOutcome(parameterIndex, getParameterCount) # Void
    THEN Throws("getParameterValueByIndex", <<parameterIndex>>,
                AccessOutcome(parameterIndex, getParameterCount))
    ELSE
    /\ Called("getParameterValueByIndex", <<parameterIndex>>,
              getParameterValueByIndex(parameterIndex))
    /\ UNCHANGED <<registryVars, paramVars, absentVars, multiplyVars, screenVars,
                   cullingVars>>

\* Mutant of isRepeat: the model-wide flag alone does not open the override path.
isRepeat_OwnFlagOnly(parameterIndex) ==
    IF isExist(notExistParameterValues, parameterIndex) THEN FALSE
    ELSE IF userParameterRepeatDataList[parameterIndex].isOverridden
    THEN userParameterRepeatDataList[parameterIndex].isParameterRepeated
    ELSE model.parameters.repeats[parameterIndex] # 0

\* Mutant of isRepeat: the asset's repeat bit is never consulted.
isRepeat_IgnoresAsset(parameterIndex) ==
    IF isExist(notExistParameterValues, parameterIndex) THEN FALSE
    ELSE userParameterRepeatDataList[parameterIndex].isParameterRepeated

isRepeat(parameterIndex) ==
    IF isExist(notExistParameterValues, parameterIndex) THEN FALSE
    ELSE IF isOverriddenParameterRepeat
              \/ userParameterRepeatDataList[parameterIndex].isOverridden
    THEN userParameterRepeatDataList[parameterIndex].isParameterRepeated
    ELSE model.parameters.repeats[parameterIndex] # 0

\* Mutant of getParameterRepeatValue: when the remainder is not a number the
\* value is left as it came.
getParameterRepeatValue_KeepsValueOnNaN(parameterIndex, value) ==
    IF isExist(notExistParameterValues, parameterIndex) THEN value
    ELSE
    LET maxValue == model.parameters.maximumValues[parameterIndex]
        minValue == model.parameters.minimumValues[parameterIndex]
        valueSize == maxValue - minValue
        over == IF maxValue < value
                THEN LET overValue == mod(value - maxValue, valueSize)
                     IN  IF ~overValue.isNaN THEN minValue + overValue.number
                         ELSE value
                ELSE value
    IN  IF over < minValue
        THEN LET overValue == mod(minValue - over, valueSize)
             IN  IF ~overValue.isNaN THEN maxValue - overValue.number ELSE over
        ELSE over

\* Mutant of getParameterRepeatValue: a value past the maximum is folded back
\* from the maximum instead of entering at the minimum.
getParameterRepeatValue_FoldsBack(parameterIndex, value) ==
    IF isExist(notExistParameterValues, parameterIndex) THEN value
    ELSE
    LET maxValue == model.parameters.maximumValues[parameterIndex]
        minValue == model.parameters.minimumValues[parameterIndex]
        valueSize == maxValue - minValue
        over == IF maxValue < value
                THEN LET overValue == mod(value - maxValue, valueSize)
                     IN  IF ~overValue.isNaN THEN maxValue - overValue.number
                         ELSE maxValue
                ELSE value
    IN  IF over < minValue
        THEN LET overValue == mod(minValue - over, valueSize)
             IN  IF ~overValue.isNaN THEN maxValue - overValue.number ELSE minValue
        ELSE over

getParameterRepeatValue(parameterIndex, value) ==
    IF isExist(notExistParameterValues, parameterIndex) THEN value
    ELSE
    LET maxValue == model.parameters.maximumValues[parameterIndex]
        minValue == model.parameters.minimumValues[parameterIndex]
        valueSize == maxValue - minValue
        over == IF maxValue < value
                THEN LET overValue == mod(value - maxValue, valueSize)
                     IN  IF ~overValue.isNaN THEN minValue + overValue.number
                         ELSE maxValue
                ELSE value
    IN  IF over < minValue
        THEN LET overValue == mod(minValue - over, valueSize)
             IN  IF ~overValue.isNaN THEN maxValue - overValue.number ELSE minValue
        ELSE over

\* A call of getParameterRepeatValue: it reads the range through _model and
\* touches neither the value array nor the record lists.
getParameterRepeatValueCall(parameterIndex, value) ==
    IF isExist(notExistParameterValues, parameterIndex)
    THEN /\ Called("getParameterRepeatValue", <<parameterIndex, value>>, value)
         /\ UNCHANGED <<registryVars, paramVars, absentVars, multiplyVars,
                        screenVars, cullingVars>>
    ELSE IF RangeAssertion(parameterIndex, getParameterCount) # Void
    THEN Throws("getParameterRepeatValue", <<parameterIndex, value>>,
                RangeAssertion(parameterIndex, getParameterCount))
    ELSE
    /\ Called("getParameterRepeatValue", <<parameterIndex, value>>,
              getParameterRepeatValue(parameterIndex, value))
    /\ UNCHANGED <<registryVars, paramVars, absentVars, multiplyVars, screenVars,
                   cullingVars>>

\* Mutant of getParameterClampValue: only the maximum is enforced.
getParameterClampValue_MaximumOnly(parameterIndex, value) ==
    IF isExist(notExistParameterValues, parameterIndex) THEN value
    ELSE IF model.parameters.maximumValues[parameterIndex] < value
    THEN model.parameters.maximumValues[parameterIndex]
    ELSE value

getParameterClampValue(parameterIndex, value) ==
    IF isExist(notExistParameterValues, parameterIndex) THEN value
    ELSE clamp(value, model.parameters.minimumValues[parameterIndex],
                      model.parameters.maximumValues[parameterIndex])

\* Mutant of setParameterValueByIndex_: the policy is applied the wrong way
\* round (clamp under repeat, wrap otherwise).
setParameterValueByIndex_PolicySwapped(parameterIndex, value, weight, absentValues) ==
    IF isExist(absentValues, parameterIndex)
    THEN [absent |->
             setValue(absentValues, parameterIndex,
                      IF weight = One THEN value
                      ELSE Blend(absentValues[parameterIndex], value, weight)),
          values |-> parameterValues]
    ELSE LET resolved == IF isRepeat(parameterIndex)
                         THEN getParameterClampValue(parameterIndex, value)
                         ELSE getParameterRepeatValue(parameterIndex, value)
         IN  [absent |-> absentValues,
              values |->
                 [parameterValues EXCEPT ![parameterIndex] =
                     IF weight = One THEN resolved
                     ELSE Blend(parameterValues[parameterIndex], resolved, weight)]]

\* Mutant of setParameterValueByIndex_: a value written to an absent index is
\* clamped to the range of parameter 0.
setParameterValueByIndex_AbsentClamped(parameterIndex, value, weight, absentValues) ==
    IF isExist(absentValues, parameterIndex)
    THEN LET resolved == clamp(value, model.parameters.minimumValues[0],
                                      model.parameters.maximumValues[0])
         IN  [absent |->
                 setValue(absentValues, parameterIndex,
                          IF weight = One THEN resolved
                          ELSE Blend(absentValues[parameterIndex], resolved, weight)),
              values |-> parameterValues]
    ELSE LET resolved == IF isRepeat(parameterIndex)
                         THEN getParameterRepeatValue(parameterIndex, value)
                         ELSE getParameterClampValue(parameterIndex, value)
         IN  [absent |-> absentValues,
              values |->
                 [parameterValues EXCEPT ![parameterIndex] =
                     IF weight = One THEN resolved
                     ELSE Blend(parameterValues[parameterIndex], resolved, weight)]]

\* Mutant of setParameterValueByIndex_: a value written to an absent index is
\* also written to the snapshot's entry 0.
setParameterValueByIndex_AbsentLeaks(parameterIndex, value, weight, absentValues) ==
    IF isExist(absentValues, parameterIndex)
    THEN [absent |->
             setValue(absentValues, parameterIndex,
                      IF weight = One THEN value
                      ELSE Blend(absentValues[parameterIndex], value, weight)),
          values |-> IF phase = "initialized"
                     THEN [parameterValues EXCEPT ![0] = value]
                     ELSE parameterValues]
    ELSE LET resolved == IF isRepeat(parameterIndex)
                         THEN getParameterRepeatValue(parameterIndex, value)
                         ELSE getParameterClampValue(parameterIndex, value)
         IN  [absent |-> absentValues,
              values |->
                 [parameterValues EXCEPT ![parameterIndex] =
                     IF weight = One THEN resolved
                     ELSE Blend(parameterValues[parameterIndex], resolved, weight)]]

\* Mutant of setParameterValueByIndex_: the value is blended with the current
\* one first and the policy is applied to the blend.
setParameterValueByIndex_BlendFirst(parameterIndex, value, weight, absentValues) ==
    IF isExist(absentValues, parameterIndex)
    THEN [absent |->
             setValue(absentValues, parameterIndex,
                      IF weight = One THEN value
                      ELSE Blend(absentValues[parameterIndex], value, weight)),
          values |-> parameterValues]
    ELSE LET blended == IF weight = One THEN value
                        ELSE Blend(parameterValues[parameterIndex], value, weight)
         IN  [absent |-> absentValues,
              values |->
                 [parameterValues EXCEPT ![parameterIndex] =
                     IF isRepeat(parameterIndex)
                     THEN getParameterRepeatValue(parameterIndex, blended)
                     ELSE getParameterClampValue(parameterIndex, blended)]]

\* setParameterValueByIndex on given absent values: the tables it leaves.
setParameterValueByIndex_(parameterIndex, value, weight, absentValues) ==
    IF isExist(absentValues, parameterIndex)
    THEN [absent |->
             setValue(absentValues, parameterIndex,
                      IF weight = One THEN value
                      ELSE Blend(absentValues[parameterIndex], value, weight)),
          values |-> parameterValues]
    ELSE LET resolved == IF isRepeat(parameterIndex)
                         THEN getParameterRepeatValue(parameterIndex, value)
                         ELSE getParameterClampValue(parameterIndex, value)
         IN  [absent |-> absentValues,
              values |->
                 [parameterValues EXCEPT ![parameterIndex] =
                     IF weight = One THEN resolved
                     ELSE Blend(parameterValues[parameterIndex], resolved, weight)]]

\* The value the blend starts from and the value blended in.
BlendExact(parameterIndex, value, weight, absentValues) ==
    IF isExist(absentValues, parameterIndex)
    THEN Exact(absentValues[parameterIndex], value, weight)
    ELSE Exact(parameterValues[parameterIndex],
               IF isRepeat(parameterIndex)
               THEN getParameterRepeatValue(parameterIndex, value)
               ELSE getParameterClampValue(parameterIndex, value),
               weight)

setParameterValueByIndex(parameterIndex, value, weight) ==
    LET outcome == IF isExist(notExistParameterValues, parameterIndex) THEN Void
                   ELSE AccessOutcome(parameterIndex, getParameterCount)
    IN  IF outcome # Void
        THEN Throws("setParameterValueByIndex", <<parameterIndex, value, weight>>,
                    outcome)
        ELSE /\ BlendExact(parameterIndex, value, weight, notExistParameterValues)
             /\ LET call == setParameterValueByIndex_(parameterIndex, value, weight,
                                                      notExistParameterValues)
                IN  /\ notExistParameterValues' = call.absent
                    /\ parameterValues' = call.values
                    /\ model' = WithParameterValues(call.values)
             /\ Called("setParameterValueByIndex",
                       <<parameterIndex, value, weight>>, Void)
             /\ UNCHANGED <<handleVars, multiplyVars, screenVars, cullingVars,
                            savedParameters, isOverriddenParameterRepeat,
                            userParameterRepeatDataList, repeatOverrideCalls,
                            notExistPartId, notExistParameterId,
                            notExistPartOpacities, partOpacities>>

\* setParameterValueById: getParameterIndex, then setParameterValueByIndex on
\* the index it returned, which is a real one or an absent one.
setParameterValueById(parameterId, value, weight) ==
    IF phase = "released"
    THEN Throws("setParameterValueById", <<parameterId, value, weight>>, TypeError)
    ELSE
    /\ LET lookup == getParameterIndex_(parameterId)
       IN  /\ BlendExact(lookup.ret, value, weight, lookup.values)
           /\ LET call == setParameterValueByIndex_(lookup.ret, value, weight,
                                                    lookup.values)
              IN  /\ notExistParameterId' = lookup.ids
                  /\ notExistParameterValues' = call.absent
                  /\ parameterValues' = call.values
                  /\ model' = WithParameterValues(call.values)
    /\ Called("setParameterValueById", <<parameterId, value, weight>>, Void)
    /\ UNCHANGED <<handleVars, multiplyVars, screenVars, cullingVars,
                   savedParameters, isOverriddenParameterRepeat,
                   userParameterRepeatDataList, repeatOverrideCalls,
                   notExistPartId, notExistPartOpacities, partOpacities>>

\* getParameterValueById looks the identifier up, which may allocate it.
getParameterValueById(parameterId) ==
    IF phase = "released"
    THEN Throws("getParameterValueById", <<parameterId>>, TypeError)
    ELSE
    /\ LET lookup == getParameterIndex_(parameterId)
       IN  /\ notExistParameterId' = lookup.ids
           /\ notExistParameterValues' = lookup.values
           /\ Called("getParameterValueById", <<parameterId>>,
                     IF isExist(lookup.values, lookup.ret)
                     THEN lookup.values[lookup.ret]
                     ELSE parameterValues[lookup.ret])
    /\ UNCHANGED <<registryVars, paramVars, multiplyVars, screenVars, cullingVars,
                   notExistPartId, notExistPartOpacities, partOpacities>>

setOverrideFlagForModelParameterRepeat(isRepeat_) ==
    /\ isOverriddenParameterRepeat' = isRepeat_
    /\ repeatOverrideCalls' = repeatOverrideCalls \cup {-1}
    /\ Called("setOverrideFlagForModelParameterRepeat", <<isRepeat_>>, Void)
    /\ UNCHANGED <<registryVars, absentVars, multiplyVars, screenVars, cullingVars,
                   parameterValues, savedParameters, userParameterRepeatDataList>>

setOverrideFlagForParameterRepeat(parameterIndex, value) ==
    IF parameterIndex \notin DOMAIN userParameterRepeatDataList
    THEN Throws("setOverrideFlagForParameterRepeat", <<parameterIndex, value>>, TypeError)
    ELSE
    /\ userParameterRepeatDataList' =
           [userParameterRepeatDataList EXCEPT ![parameterIndex].isOverridden = value]
    /\ repeatOverrideCalls' = repeatOverrideCalls \cup {parameterIndex}
    /\ Called("setOverrideFlagForParameterRepeat", <<parameterIndex, value>>, Void)
    /\ UNCHANGED <<registryVars, absentVars, multiplyVars, screenVars, cullingVars,
                   parameterValues, savedParameters, isOverriddenParameterRepeat>>

setRepeatFlagForParameterRepeat(parameterIndex, value) ==
    IF parameterIndex \notin DOMAIN userParameterRepeatDataList
    THEN Throws("setRepeatFlagForParameterRepeat", <<parameterIndex, value>>, TypeError)
    ELSE
    /\ userParameterRepeatDataList' =
           [userParameterRepeatDataList EXCEPT
              ![parameterIndex].isParameterRepeated = value]
    /\ Called("setRepeatFlagForParameterRepeat", <<parameterIndex, value>>, Void)
    /\ UNCHANGED <<registryVars, absentVars, multiplyVars, screenVars, cullingVars,
                   parameterValues, savedParameters, isOverriddenParameterRepeat,
                   repeatOverrideCalls>>

\* value * weight is a whole number.
Whole(value, weight) == (value * weight.num) % weight.den = 0
Times(value, weight) == (value * weight.num) \div weight.den

\* The value getParameterValueByIndex returns for an index the given absent
\* table or the value array holds.
ValueAt(parameterIndex, absentValues) ==
    IF isExist(absentValues, parameterIndex) THEN absentValues[parameterIndex]
    ELSE parameterValues[parameterIndex]

\* Mutant of addParameterValueByIndex_: the weight is handed to the setter
\* instead of scaling the addend.
addParameterValueByIndex_WeightToSetter(parameterIndex, value, weight, absentValues) ==
    setParameterValueByIndex_(parameterIndex,
                              ValueAt(parameterIndex, absentValues) + value,
                              weight, absentValues)

\* addParameterValueByIndex on given absent values: the tables it leaves.
addParameterValueByIndex_(parameterIndex, value, weight, absentValues) ==
    setParameterValueByIndex_(parameterIndex,
                              ValueAt(parameterIndex, absentValues)
                                + Times(value, weight),
                              One, absentValues)

\* multiplyParameterValueByIndex on given absent values: the tables it leaves.
multiplyParameterValueByIndex_(parameterIndex, value, weight, absentValues) ==
    setParameterValueByIndex_(parameterIndex,
                              ValueAt(parameterIndex, absentValues)
                                * (1 + Times(value - 1, weight)),
                              One, absentValues)

addParameterValueByIndex(parameterIndex, value, weight) ==
    LET outcome == IF isExist(notExistParameterValues, parameterIndex) THEN Void
                   ELSE AccessOutcome(parameterIndex, getParameterCount)
    IN  IF outcome # Void
        THEN Throws("addParameterValueByIndex", <<parameterIndex, value, weight>>,
                    outcome)
        ELSE /\ Whole(value, weight)
             /\ LET call == addParameterValueByIndex_(parameterIndex, value, weight,
                                                      notExistParameterValues)
                IN  /\ notExistParameterValues' = call.absent
                    /\ parameterValues' = call.values
                    /\ model' = WithParameterValues(call.values)
             /\ Called("addParameterValueByIndex",
                       <<parameterIndex, value, weight>>, Void)
             /\ UNCHANGED <<handleVars, multiplyVars, screenVars, cullingVars,
                            savedParameters, isOverriddenParameterRepeat,
                            userParameterRepeatDataList, repeatOverrideCalls,
                            notExistPartId, notExistParameterId,
                            notExistPartOpacities, partOpacities>>

\* addParameterValueById: getParameterIndex, then addParameterValueByIndex on
\* the index it returned.
addParameterValueById(parameterId, value, weight) ==
    IF phase = "released"
    THEN Throws("addParameterValueById", <<parameterId, value, weight>>, TypeError)
    ELSE
    /\ Whole(value, weight)
    /\ LET lookup == getParameterIndex_(parameterId)
           call == addParameterValueByIndex_(lookup.ret, value, weight, lookup.values)
       IN  /\ notExistParameterId' = lookup.ids
           /\ notExistParameterValues' = call.absent
           /\ parameterValues' = call.values
           /\ model' = WithParameterValues(call.values)
    /\ Called("addParameterValueById", <<parameterId, value, weight>>, Void)
    /\ UNCHANGED <<handleVars, multiplyVars, screenVars, cullingVars,
                   savedParameters, isOverriddenParameterRepeat,
                   userParameterRepeatDataList, repeatOverrideCalls,
                   notExistPartId, notExistPartOpacities, partOpacities>>

multiplyParameterValueByIndex(parameterIndex, value, weight) ==
    LET outcome == IF isExist(notExistParameterValues, parameterIndex) THEN Void
                   ELSE AccessOutcome(parameterIndex, getParameterCount)
    IN  IF outcome # Void
        THEN Throws("multiplyParameterValueByIndex",
                    <<parameterIndex, value, weight>>, outcome)
        ELSE /\ Whole(value - 1, weight)
             /\ LET call == multiplyParameterValueByIndex_(parameterIndex, value,
                                                           weight,
                                                           notExistParameterValues)
                IN  /\ notExistParameterValues' = call.absent
                    /\ parameterValues' = call.values
                    /\ model' = WithParameterValues(call.values)
             /\ Called("multiplyParameterValueByIndex",
                       <<parameterIndex, value, weight>>, Void)
             /\ UNCHANGED <<handleVars, multiplyVars, screenVars, cullingVars,
                            savedParameters, isOverriddenParameterRepeat,
                            userParameterRepeatDataList, repeatOverrideCalls,
                            notExistPartId, notExistParameterId,
                            notExistPartOpacities, partOpacities>>

\* multiplyParameterValueById: getParameterIndex, then
\* multiplyParameterValueByIndex on the index it returned.
multiplyParameterValueById(parameterId, value, weight) ==
    IF phase = "released"
    THEN Throws("multiplyParameterValueById", <<parameterId, value, weight>>,
                TypeError)
    ELSE
    /\ Whole(value - 1, weight)
    /\ LET lookup == getParameterIndex_(parameterId)
           call == multiplyParameterValueByIndex_(lookup.ret, value, weight,
                                                  lookup.values)
       IN  /\ notExistParameterId' = lookup.ids
           /\ notExistParameterValues' = call.absent
           /\ parameterValues' = call.values
           /\ model' = WithParameterValues(call.values)
    /\ Called("multiplyParameterValueById", <<parameterId, value, weight>>, Void)
    /\ UNCHANGED <<handleVars, multiplyVars, screenVars, cullingVars,
                   savedParameters, isOverriddenParameterRepeat,
                   userParameterRepeatDataList, repeatOverrideCalls,
                   notExistPartId, notExistPartOpacities, partOpacities>>

----------------------------------------------------------------------------
(* saveParameters, loadParameters, update *)

\* Mutant of saveParameters_: entries already in the buffer are not overwritten.
saveParameters_KeepsOld(values, saved) ==
    LET parameterCount == model.parameters.count
        savedParameterCount == getSize(saved)
        size == IF parameterCount > savedParameterCount
                THEN parameterCount ELSE savedParameterCount
    IN  [i \in 0..(size - 1) |-> IF i < savedParameterCount THEN saved[i] ELSE values[i]]

\* The saved buffer after a save: entries below the parameter count are
\* overwritten or appended, entries beyond it are kept.
saveParameters_(values, saved) ==
    LET parameterCount == model.parameters.count
        savedParameterCount == getSize(saved)
        size == IF parameterCount > savedParameterCount
                THEN parameterCount ELSE savedParameterCount
    IN  [i \in 0..(size - 1) |-> IF i < parameterCount THEN values[i] ELSE saved[i]]

\* Mutant of loadParameters_: the last saved entry is not copied back.
loadParameters_SkipsLast(values, saved) ==
    LET savedParameterCount == getSize(saved)
        parameterCount == IF model.parameters.count > savedParameterCount
                          THEN savedParameterCount ELSE model.parameters.count
    IN  [i \in DOMAIN values |->
            IF i < parameterCount - 1 THEN saved[i] ELSE values[i]]

\* The parameter values after a load: the first min(count, saved count)
\* entries are copied back.
loadParameters_(values, saved) ==
    LET savedParameterCount == getSize(saved)
        parameterCount == IF model.parameters.count > savedParameterCount
                          THEN savedParameterCount ELSE model.parameters.count
    IN  [i \in DOMAIN values |-> IF i < parameterCount THEN saved[i] ELSE values[i]]

\* saveParameters reads the count through _model and then the value array,
\* which is null before initialize.
saveParameters ==
    IF phase = "released" \/ (phase = "constructed" /\ model.parameters.count > 0)
    THEN Throws("saveParameters", << >>, TypeError)
    ELSE
    /\ savedParameters' =
           IF phase = "constructed" THEN savedParameters
           ELSE saveParameters_(parameterValues, savedParameters)
    /\ Called("saveParameters", << >>, Void)
    /\ UNCHANGED <<registryVars, absentVars, multiplyVars, screenVars, cullingVars,
                   parameterValues, isOverriddenParameterRepeat,
                   userParameterRepeatDataList, repeatOverrideCalls>>

\* loadParameters reads the count through _model; its loop writes the value
\* array, which is null before initialize, once for every saved entry.
loadParameters ==
    IF phase = "released"
         \/ (phase = "constructed" /\ model.parameters.count > 0
               /\ getSize(savedParameters) > 0)
    THEN Throws("loadParameters", << >>, TypeError)
    ELSE
    /\ parameterValues' =
           IF phase = "constructed" THEN parameterValues
           ELSE loadParameters_(parameterValues, savedParameters)
    /\ model' = WithParameterValues(parameterValues')
    /\ Called("loadParameters", << >>, Void)
    /\ UNCHANGED <<handleVars, absentVars, multiplyVars, screenVars, cullingVars,
                   savedParameters, isOverriddenParameterRepeat,
                   userParameterRepeatDataList, repeatOverrideCalls>>

\* How many frames a behaviour runs.
MaxFrames == 2

\* The engine's recomputation: it counts as one run and raises the dynamic
\* flags it computed for the drawables.
CoreUpdate(m, flags) ==
    [m EXCEPT !.updates = @ + 1, !.drawables.dynamicFlags = flags]
resetDynamicFlags(m) ==
    [m EXCEPT !.drawables.dynamicFlags = [i \in DOMAIN @ |-> 0]]

\* Mutant of update_: the dynamic flags are reset before the recomputation.
update_ResetFirst(m, flags) == CoreUpdate(resetDynamicFlags(m), flags)

\* update: the engine's model after the recomputation and the flag reset.
update_(m, flags) == resetDynamicFlags(CoreUpdate(m, flags))


update ==
    IF phase = "released"
    THEN Throws("update", << >>, TypeError)
    ELSE
    /\ model.updates < MaxFrames
    /\ \E flags \in [DrawableIndices -> {0, 1}] : model' = update_(model, flags)
    /\ Called("update", << >>, Void)
    /\ UNCHANGED <<handleVars, paramVars, absentVars, multiplyVars, screenVars,
                   cullingVars>>

----------------------------------------------------------------------------
(* release *)

\* Mutant of release_: the snapshot is released on every call.
release_EveryCall(m, released) ==
    [model |-> [m EXCEPT !.releases = @ + 1], phase |-> "released", ret |-> Void]

\* release: the snapshot, the reference and the outcome of the call.
release_(m, released) ==
    IF released
    THEN [model |-> m, phase |-> "released", ret |-> TypeError]
    ELSE [model |-> [m EXCEPT !.releases = @ + 1], phase |-> "released", ret |-> Void]

release ==
    /\ LET call == release_(model, phase = "released")
       IN  /\ model' = call.model
           /\ phase' = call.phase
           /\ lastCall' = [op |-> "release", args |-> << >>, ret |-> call.ret,
                           threw |-> call.ret = TypeError]
    /\ UNCHANGED <<parameterIds, partIds, drawableIds, partChildDrawables,
                   paramVars, absentVars, multiplyVars, screenVars, cullingVars>>

\* The values the application writes.
ParameterInputs == {-45, 13, 45}

NextParam ==
    \/ initialize
    \/ Ready /\ \E i \in ParameterIndices, v \in ParameterInputs, w \in {Zero, One} :
                   setParameterValueByIndex(i, v, w)
    \/ Ready /\ \E i \in ParameterIndices, v \in ParameterInputs :
                   setParameterValueById(model.parameters.ids[i], v, One)
    \/ Ready /\ \E value \in BOOLEAN : setOverrideFlagForModelParameterRepeat(value)
    \/ Ready /\ \E i \in ParameterIndices, value \in BOOLEAN :
                   setOverrideFlagForParameterRepeat(i, value)
    \/ Ready /\ \E i \in ParameterIndices, value \in BOOLEAN :
                   setRepeatFlagForParameterRepeat(i, value)

SpecParam == InitWith(SmallAsset) /\ [][NextParam]_vars

----------------------------------------------------------------------------
(* Lookups of identifiers the asset does not know *)

\* How many distinct unknown parameter identifiers the application uses.
MaxUnknownIds == 2
UnknownParameterIds == {900 + k : k \in 1..MaxUnknownIds}
UnknownPartIds == {951, 952}
RealParameterIds == {model.parameters.ids[i] : i \in ParameterIndices}
RealPartIds == {model.parts.ids[i] : i \in PartIndices}

NextRegistry ==
    \/ initialize
    \/ Ready /\ \E id \in RealParameterIds \cup UnknownParameterIds : getParameterIndex(id)
    \/ Ready /\ \E id \in RealPartIds \cup UnknownPartIds : getPartIndex(id)
    \/ Ready /\ \E id \in RealParameterIds \cup UnknownParameterIds : getParameterValueById(id)
    \/ Ready /\ \E id \in {model.parameters.ids[0]} \cup UnknownParameterIds :
                   setParameterValueById(id, 45, One)
    \/ Ready /\ \E i \in {0} \cup DOMAIN notExistParameterValues :
                   setParameterValueByIndex(i, 45, One)
    \/ Ready /\ \E id \in RealPartIds \cup UnknownPartIds : setPartOpacityById(id, 0)
    \/ Ready /\ \E i \in DOMAIN notExistPartOpacities : setPartOpacityByIndex(i, 0)

SpecRegistry == InitWith(SmallAsset) /\ [][NextRegistry]_vars

----------------------------------------------------------------------------
(* Values and opacities of absent identifiers *)

Half == Weight(1, 2)
AbsentParameterIds == {901, 902}
AbsentPartIds == {951}
\* The value and weight pairs the application writes.
AbsentInputs == {<<45, One>>, <<-45, One>>, <<44, Half>>}

NextAbsent ==
    \/ initialize
    \/ Ready /\ \E id \in AbsentParameterIds, in \in AbsentInputs :
                   setParameterValueById(id, in[1], in[2])
    \/ Ready /\ setParameterValueById(model.parameters.ids[0], 45, One)
    \/ Ready /\ \E id \in AbsentParameterIds \cup {model.parameters.ids[0]} :
                   getParameterValueById(id)
    \/ Ready /\ \E value \in BOOLEAN : setOverrideFlagForModelParameterRepeat(value)
    \/ Ready /\ \E value \in BOOLEAN : setRepeatFlagForParameterRepeat(0, value)
    \/ Ready /\ \E id \in AbsentPartIds \cup RealPartIds, o \in {0, 1} :
                   setPartOpacityById(id, o)
    \/ Ready /\ \E id \in AbsentPartIds \cup RealPartIds : getPartOpacityById(id)

SpecAbsent == InitWith(SmallAsset) /\ [][NextAbsent]_vars

----------------------------------------------------------------------------
(* Checkpoints of the parameter values, with one absent parameter and part *)

\* The largest magnitude an absent parameter's value is driven to.
MaxMagnitude == 45
AbsentParameterIndices == DOMAIN notExistParameterValues
AbsentPartIndices == DOMAIN notExistPartOpacities

NextSnapshot ==
    \/ initialize
    \/ getParameterIndex(901)
    \/ getPartIndex(951)
    \/ \E i \in ParameterIndices \cup AbsentParameterIndices :
          setParameterValueByIndex(i, 45, One)
    \/ addParameterValueByIndex(1, 10, Half)
    \/ \E i \in AbsentParameterIndices, v \in {-45, 45} :
          /\ Abs(getParameterValueByIndex(i) + v) <= MaxMagnitude
          /\ addParameterValueByIndex(i, v, One)
    \/ \E i \in ParameterIndices \cup AbsentParameterIndices :
          \/ multiplyParameterValueByIndex(i, -1, One)
          \/ /\ Ready
             /\ Abs(getParameterValueByIndex(i) * 2) <= MaxMagnitude
             /\ multiplyParameterValueByIndex(i, 3, Half)
    \/ \E value \in BOOLEAN : setOverrideFlagForModelParameterRepeat(value)
    \/ \E i \in AbsentPartIndices, o \in {0, 1} : setPartOpacityByIndex(i, o)
    \/ saveParameters
    \/ loadParameters
    \/ update

SpecSnapshot == InitWith(SmallAsset) /\ [][NextSnapshot]_vars

----------------------------------------------------------------------------
(* A model's life: initialize, then frames of writes, checkpoints and update *)

\* The value held for an identifier in the absent table, 0 before its first
\* lookup.
AbsentParameterValue(id) ==
    IF isExist(notExistParameterId, id)
    THEN notExistParameterValues[notExistParameterId[id]]
    ELSE 0

NextLifecycle ==
    \/ initialize
    \/ update
    \/ setParameterValueByIndex(0, 45, One)
    \/ addParameterValueByIndex(0, -60, One)
    \/ multiplyParameterValueByIndex(0, -1, One)
    \/ saveParameters
    \/ loadParameters
    \/ getParameterIndex(901)
    \/ getPartIndex(951)
    \/ setOverrideColorForPartMultiplyColors(0, TRUE)
    \/ setOverrideFlagForModelCullings(TRUE)
    \/ setOverrideFlagForParameterRepeat(0, TRUE)
    \/ setDrawableCulling(0, TRUE)

SpecLifecycle == InitWith(SmallAsset) /\ [][NextLifecycle]_vars

----------------------------------------------------------------------------
(* The part-to-drawable topology over assets of two parts, three drawables *)

TopologyAssets ==
    {Asset(2, parents, [d \in 0..2 |-> 0]) : parents \in [0..2 -> {-1, 0, 1}]}

InitTopology == \E asset \in TopologyAssets : InitWith(asset)

NextTopology ==
    \/ initialize
    \/ update
    \/ getPartIndex(951)
    \/ \E p \in PartIndices, value \in BOOLEAN :
          setOverrideColorForPartMultiplyColors(p, value)
    \/ \E p \in PartIndices : setPartMultiplyColorByRGBA(p, 1, 0, 0, 1)
    \/ setOverrideFlagForModelCullings(TRUE)

SpecTopology == InitTopology /\ [][NextTopology]_vars

----------------------------------------------------------------------------
(* Writes of override values and of override flags, side by side *)

NextFlags ==
    \/ initialize
    \/ setMultiplyColorByRGBA(0, 1, 0, 0, 1)
    \/ setScreenColorByRGBA(0, 1, 1, 1, 0)
    \/ setDrawableCulling(0, TRUE)
    \/ setRepeatFlagForParameterRepeat(0, TRUE)
    \/ setPartMultiplyColorByRGBA(0, 1, 0, 0, 1)
    \/ setPartScreenColorByRGBA(0, 1, 1, 1, 0)
    \/ \E value \in BOOLEAN : setOverrideFlagForDrawableMultiplyColors(0, value)
    \/ setOverrideFlagForDrawableScreenColors(0, TRUE)
    \/ setOverrideFlagForDrawableCullings(0, TRUE)
    \/ setOverrideFlagForParameterRepeat(0, TRUE)
    \/ setOverrideFlagForModelMultiplyColors(TRUE)
    \/ setOverrideFlagForModelScreenColors(TRUE)
    \/ setOverrideFlagForModelCullings(TRUE)
    \/ setOverrideFlagForModelParameterRepeat(FALSE)
    \/ setOverrideColorForPartMultiplyColors(0, TRUE)

SpecFlags == InitWith(SmallAsset) /\ [][NextFlags]_vars

----------------------------------------------------------------------------
(* Assets whose parameter 0 has a range of one point *)

DegenerateAssets ==
    {[SmallAsset EXCEPT
        !.parameters.minimumValues = [i \in 0..1 |-> IF i = 0 THEN c ELSE 0],
        !.parameters.maximumValues = [i \in 0..1 |-> IF i = 0 THEN c ELSE 10],
        !.parameters.defaultValues = [i \in 0..1 |-> IF i = 0 THEN c ELSE 0],
        !.parameters.values = [i \in 0..1 |-> IF i = 0 THEN c ELSE 0]] :
      c \in {-3, 0, 5}}

InitDegenerate == \E asset \in DegenerateAssets : InitWith(asset)

NextDegenerate ==
    \/ initialize
    \/ \E i \in ParameterIndices, v \in ParameterInputs :
          setParameterValueByIndex(i, v, One)
    \/ \E value \in BOOLEAN : setOverrideFlagForModelParameterRepeat(value)
    \/ \E i \in ParameterIndices, value \in BOOLEAN :
          setOverrideFlagForParameterRepeat(i, value)
    \/ \E i \in ParameterIndices, value \in BOOLEAN :
          setRepeatFlagForParameterRepeat(i, value)

SpecDegenerate == InitDegenerate /\ [][NextDegenerate]_vars

----------------------------------------------------------------------------
(* Frames of a model that is released *)

NextRelease ==
    \/ initialize
    \/ update
    \/ release
    \/ setParameterValueByIndex(0, 45, One)
    \/ /\ Abs(AbsentParameterValue(model.parameters.ids[0]) + 45) <= MaxMagnitude
       /\ addParameterValueById(model.parameters.ids[0], 45, One)
    \/ multiplyParameterValueById(901, -1, One)
    \/ saveParameters
    \/ getParameterIndex(901)
    \/ setOverrideFlagForModelCullings(TRUE)
    \/ setOverrideColorForPartMultiplyColors(0, TRUE)

SpecRelease == InitWith(SmallAsset) /\ [][NextRelease]_vars

----------------------------------------------------------------------------
(* Accessors by index, with indices inside and outside the tables *)

IndexInputs == {-1, 0, 1, 2, 3, 5}

NextRange ==
    \/ initialize
    \/ release
    \/ getParameterIndex(901)
    \/ getPartIndex(951)
    \/ \E i \in IndexInputs :
          \/ \E v \in {-45, 45} : setParameterValueByIndex(i, v, One)
          \/ getParameterValueByIndexCall(i)
          \/ setPartOpacityByIndex(i, 0)
          \/ getPartOpacityByIndexCall(i)

SpecRange == InitWith(SmallAsset) /\ [][NextRange]_vars

----------------------------------------------------------------------------
(* Lookups of real and unknown identifiers *)

RealDrawableIds == {model.drawables.ids[i] : i \in DrawableIndices}
UnknownDrawableIds == {980, 981}

NextLookup ==
    \/ initialize
    \/ \E id \in RealParameterIds \cup AbsentParameterIds : getParameterIndex(id)
    \/ \E id \in RealPartIds \cup AbsentPartIds : getPartIndex(id)
    \/ \E id \in RealDrawableIds \cup UnknownDrawableIds : getDrawableIndex(id)
    \/ setParameterValueById(901, 45, One)
    \/ setOverrideFlagForDrawableMultiplyColors(0, TRUE)
    \/ setDrawableCulling(0, TRUE)

SpecLookup == InitWith(SmallAsset) /\ [][NextLookup]_vars

----------------------------------------------------------------------------
(* The wrap of a value into a range *)

MaxWrapInput == 100

\* Ranges with a minimum below the maximum, authored for parameter 0.
WrapRanges == {<<-30, 30>>, <<0, 10>>, <<-3, -1>>, <<2, 3>>}

WrapAssets ==
    {[SmallAsset EXCEPT !.parameters.minimumValues[0] = range[1],
                        !.parameters.maximumValues[0] = range[2]] :
        range \in WrapRanges}

InitWrap == \E asset \in WrapAssets : InitWith(asset)

NextWrap ==
    \/ initialize
    \/ \E i \in ParameterIndices, v \in (-MaxWrapInput)..MaxWrapInput :
          getParameterRepeatValueCall(i, v)

SpecWrap == InitWrap /\ [][NextWrap]_vars

----------------------------------------------------------------------------
(* Weighted writes to real parameters *)

BlendWeights == {Zero, Half, One}

NextBlend ==
    \/ initialize
    \/ \E v \in {-45, 45}, w \in BlendWeights : setParameterValueByIndex(0, v, w)
    \/ setParameterValueByIndex(1, 13, One)
    \/ setParameterValueById(model.parameters.ids[0], 45, Half)
    \/ addParameterValueByIndex(0, -60, One)
    \/ multiplyParameterValueByIndex(0, -1, One)
    \/ /\ Abs(AbsentParameterValue(model.parameters.ids[0]) + 45) <= MaxMagnitude
       /\ addParameterValueById(model.parameters.ids[0], 45, One)
    \/ multiplyParameterValueById(901, -1, One)
    \/ saveParameters
    \/ loadParameters
    \/ setOverrideFlagForModelParameterRepeat(FALSE)
    \/ setOverrideFlagForParameterRepeat(0, TRUE)
    \/ setRepeatFlagForParameterRepeat(0, TRUE)

SpecBlend == InitWith(SmallAsset) /\ [][NextBlend]_vars

----------------------------------------------------------------------------
(* Part-level colour writes over two parts, the second a child of the first *)

\* Drawables 0 and 2 belong to part 0, drawable 1 to part 1.
CascadeAsset == Asset(2, [d \in 0..2 |-> d % 2], [d \in 0..2 |-> 0])

CascadeColors == {TextureColor(1, 0, 0, 1), TextureColor(0, 1, 0, 0)}

NextCascade ==
    \/ initialize
    \/ \E p \in PartIndices, c \in CascadeColors :
          setPartMultiplyColorByRGBA(p, c.r, c.g, c.b, c.a)
    \/ \E p \in PartIndices : setPartScreenColorByRGBA(p, 1, 1, 1, 0)
    \/ \E p \in PartIndices, value \in BOOLEAN :
          \/ setOverrideColorForPartMultiplyColors(p, value)
          \/ setOverrideColorForPartScreenColors(p, value)
    \/ setDrawableCulling(0, TRUE)

SpecCascade == InitWith(CascadeAsset) /\ [][NextCascade]_vars

----------------------------------------------------------------------------
(* Properties *)

\* The step is a call of op with args that returned / the last call was one.
Calls(op, args) == lastCall'.op = op /\ lastCall'.args = args /\ ~lastCall'.threw
Called_(op, args) == lastCall.op = op /\ lastCall.args = args /\ ~lastCall.threw
\* The step is a call of op with args that threw / the last call threw.
Fails(op, args) == lastCall'.op = op /\ lastCall'.args = args /\ lastCall'.threw
Failed_(op, args) == lastCall.op = op /\ lastCall.args = args /\ lastCall.threw

\* The drawables whose parent part is p, read from the asset.
DrawablesOfPart(p) ==
    {d \in DrawableIndices : model.drawables.parentPartIndices[d] = p}

Red == TextureColor(1, 0, 0, 1)

\* initialize() has run, once or more often / exactly once, as the lifecycle
\* has it; a release() may have followed.
Initialized == getSize(cullingObjects) >= 1
InitializedOnce == getSize(cullingObjects) = 1

\* The last call was the first initialize() of the instance.
FreshlyInitialized ==
    Called_("initialize", << >>) /\ getSize(cullingObjects) = 1

\* C1 (as stated): disabling a part's multiply / screen override leaves the
\* isOverridden flag and the override colour of every child drawable unchanged.
C1_Original ==
    [][\A p \in PartIndices :
        /\ Calls("setOverrideColorForPartMultiplyColors", <<p, FALSE>>)
              => \A d \in DrawablesOfPart(p) :
                    userMultiplyColors'[d] = userMultiplyColors[d]
        /\ Calls("setOverrideColorForPartScreenColors", <<p, FALSE>>)
              => \A d \in DrawablesOfPart(p) :
                    userScreenColors'[d] = userScreenColors[d]]_vars

\* C1 (amended): disabling a part's multiply / screen override leaves the
\* override colour of every child drawable unchanged and sets the part's flag
\* and every child's isOverridden flag to false, whatever set the child's flag.
C1_DisableKeepsColorClearsFlag ==
    [][\A p \in PartIndices :
        /\ Calls("setOverrideColorForPartMultiplyColors", <<p, FALSE>>)
              => /\ ~userPartMultiplyColors'[p].isOverridden
                 /\ \A d \in DrawablesOfPart(p) :
                       /\ userMultiplyColors'[d].color = userMultiplyColors[d].color
                       /\ ~userMultiplyColors'[d].isOverridden
        /\ Calls("setOverrideColorForPartScreenColors", <<p, FALSE>>)
              => /\ ~userPartScreenColors'[p].isOverridden
                 /\ \A d \in DrawablesOfPart(p) :
                       /\ userScreenColors'[d].color = userScreenColors[d].color
                       /\ ~userScreenColors'[d].isOverridden]_vars

\* C1 witness: part 0 has just been disabled after its colour (1,0,0,1) was
\* cascaded to its child, which keeps the colour and is no longer overridden.
C1_Witness ==
    /\ Called_("setOverrideColorForPartMultiplyColors", <<0, FALSE>>)
    /\ userPartMultiplyColors[0].color = Red
    /\ \A d \in DrawablesOfPart(0) :
          userMultiplyColors[d].color = Red /\ ~userMultiplyColors[d].isOverridden
    /\ DrawablesOfPart(0) # {}

\* C3: enabling a part's multiply / screen override sets the part's flag and,
\* for every drawable whose parent is the part, sets the flag and copies the
\* part's current colour, which getMultiplyColor / getScreenColor then return.
C3_EnableCascades ==
    [][\A p \in PartIndices :
        /\ Calls("setOverrideColorForPartMultiplyColors", <<p, TRUE>>)
              => /\ userPartMultiplyColors'[p] =
                       PartColorData(TRUE, userPartMultiplyColors[p].color)
                 /\ \A d \in DrawablesOfPart(p) :
                       /\ userMultiplyColors'[d] =
                             DrawableColorData(TRUE, userPartMultiplyColors[p].color)
                       /\ getMultiplyColor(d)' = userPartMultiplyColors[p].color
        /\ Calls("setOverrideColorForPartScreenColors", <<p, TRUE>>)
              => /\ userPartScreenColors'[p] =
                       PartColorData(TRUE, userPartScreenColors[p].color)
                 /\ \A d \in DrawablesOfPart(p) :
                       /\ userScreenColors'[d] =
                             DrawableColorData(TRUE, userPartScreenColors[p].color)
                       /\ getScreenColor(d)' = userPartScreenColors[p].color]_vars

\* C3 witness: part 0 has just been enabled with colour (1,0,0,1) and its
\* child is overridden with that colour.
C3_Witness ==
    /\ Called_("setOverrideColorForPartMultiplyColors", <<0, TRUE>>)
    /\ userPartMultiplyColors[0] = PartColorData(TRUE, Red)
    /\ DrawablesOfPart(0) # {}
    /\ \A d \in DrawablesOfPart(0) : getMultiplyColor(d) = Red

\* C4: setPartMultiplyColorByRGBA / setPartScreenColorByRGBA always stores the
\* colour in the part's record; it writes the colour to the children exactly
\* when the part's flag is already true; with the flag false no drawable's
\* colour changes.
C4_PartColorCascade ==
    [][\A p \in PartIndices :
        /\ \A c \in MultiplyInputColors :
              Calls("setPartMultiplyColorByRGBA", <<p, c.r, c.g, c.b, c.a>>)
              => /\ userPartMultiplyColors'[p].color = c
                 /\ userPartMultiplyColors[p].isOverridden
                      => \A d \in DrawablesOfPart(p) : userMultiplyColors'[d].color = c
                 /\ ~userPartMultiplyColors[p].isOverridden
                      => \A d \in DrawableIndices :
                            userMultiplyColors'[d].color = userMultiplyColors[d].color
        /\ \A c \in ScreenInputColors :
              Calls("setPartScreenColorByRGBA", <<p, c.r, c.g, c.b, c.a>>)
              => /\ userPartScreenColors'[p].color = c
                 /\ userPartScreenColors[p].isOverridden
                      => \A d \in DrawablesOfPart(p) : userScreenColors'[d].color = c
                 /\ ~userPartScreenColors[p].isOverridden
                      => \A d \in DrawableIndices :
                            userScreenColors'[d].color = userScreenColors[d].color]_vars

\* C4 witness: the colour of part 0, whose flag was already set, has just
\* been set to (1,0,0,1), and the child, no longer flagged, holds it.
C4_Witness ==
    /\ Called_("setPartMultiplyColorByRGBA", <<0, 1, 0, 0, 1>>)
    /\ userPartMultiplyColors[0] = PartColorData(TRUE, Red)
    /\ userMultiplyColors[0] = DrawableColorData(FALSE, Red)

\* The expected colour of a drawable: the override colour when either flag is
\* set, the asset's colour otherwise.
ResolvedColor(modelFlag, record, assetColor) ==
    IF modelFlag \/ record.isOverridden THEN record.color ELSE assetColor

ColorPrecedenceHolds ==
    Ready => \A d \in DrawableIndices :
        /\ getMultiplyColor(d) =
              ResolvedColor(isOverriddenModelMultiplyColors, userMultiplyColors[d],
                            model.drawables.multiplyColors[d])
        /\ getScreenColor(d) =
              ResolvedColor(isOverriddenModelScreenColors, userScreenColors[d],
                            model.drawables.screenColors[d])

\* C5: getMultiplyColor / getScreenColor return the drawable's override colour
\* when the model-wide flag or the drawable's own flag is true and the asset's
\* colour otherwise; while the model-wide flag is true, setting the drawable's
\* own flag does not change the result.
C5_ColorPrecedence ==
    [][/\ ColorPrecedenceHolds
       /\ ColorPrecedenceHolds'
       /\ \A d \in DrawableIndices, v \in BOOLEAN :
            /\ (isOverriddenModelMultiplyColors
                  /\ Calls("setOverrideFlagForDrawableMultiplyColors", <<d, v>>))
                 => getMultiplyColor(d)' = getMultiplyColor(d)
            /\ (isOverriddenModelScreenColors
                  /\ Calls("setOverrideFlagForDrawableScreenColors", <<d, v>>))
                 => getScreenColor(d)' = getScreenColor(d)]_vars

\* C5 witness: with the model-wide multiply flag on, drawable 1's own flag has
\* just been cleared, and getMultiplyColor still returns its override colour,
\* which is not the asset's colour.
C5_Witness ==
    /\ Called_("setOverrideFlagForDrawableMultiplyColors", <<1, FALSE>>)
    /\ isOverriddenModelMultiplyColors
    /\ ~userMultiplyColors[1].isOverridden
    /\ getMultiplyColor(1) = Red
    /\ model.drawables.multiplyColors[1] # Red

\* C2 (as stated): setDrawableCulling(d, x) and
\* setOverrideFlagForDrawableCullings(d, x) change only d's record: for every
\* other drawable the override flag and getDrawableCulling stay the same.
C2_CullingRecordsSeparate ==
    [][\A d \in DrawableIndices, x \in BOOLEAN :
        (Calls("setDrawableCulling", <<d, x>>)
           \/ Calls("setOverrideFlagForDrawableCullings", <<d, x>>))
        => \A e \in DrawableIndices \ {d} :
              /\ getOverrideFlagForDrawableCullings(e)'
                    = getOverrideFlagForDrawableCullings(e)
              /\ getDrawableCulling(e)' = getDrawableCulling(e)]_vars

\* C6: getDrawableCulling returns the drawable's override isCulling value when
\* the model-wide culling flag or the drawable's own flag is true; otherwise
\* true exactly when the asset's flags lack the double-sided bit.
C6_CullingPrecedence ==
    Ready => \A d \in DrawableIndices :
        LET record == cullingObjects[userCullings[d]]
            doubleSided == model.drawables.constantFlags[d] \in {4, 5, 6, 7}
        IN  getDrawableCulling(d) =
              IF isOverriddenCullings \/ record.isOverridden
              THEN record.isCulling
              ELSE ~doubleSided

\* C6 witness: only the own flag of the double-sided drawable 0 is set, its
\* isCulling has just been set, and getDrawableCulling returns it.
C6_Witness ==
    /\ Called_("setDrawableCulling", <<0, TRUE>>)
    /\ ~isOverriddenCullings
    /\ getOverrideFlagForDrawableCullings(0)
    /\ model.drawables.constantFlags[0] = 4
    /\ getDrawableCulling(0)

\* The asset-authored repeat bit and range of a real parameter.
AssetRepeats(i) == model.parameters.repeats[i] = 1
Min(i) == model.parameters.minimumValues[i]
Max(i) == model.parameters.maximumValues[i]

\* The value v wraps to in [Min(i), Max(i)], and the value it clamps to.
Wrapped(i, v) ==
    IF Max(i) = Min(i)
    THEN (IF v > Max(i) THEN Max(i) ELSE IF v < Min(i) THEN Min(i) ELSE v)
    ELSE IF v > Max(i) THEN Min(i) + ((v - Max(i)) % (Max(i) - Min(i)))
    ELSE IF v < Min(i) THEN Max(i) - ((Min(i) - v) % (Max(i) - Min(i)))
    ELSE v
Smaller(a, b) == IF a < b THEN a ELSE b
Larger(a, b) == IF a < b THEN b ELSE a
Clamped(i, v) == Larger(Smaller(v, Max(i)), Min(i))

\* C7: isRepeat(i) is the parameter's own isParameterRepeated value when the
\* model-wide repeat-override flag or the parameter's own override flag is
\* true, and the asset's repeat bit otherwise.
C7_RepeatPolicySelection ==
    Ready => \A i \in ParameterIndices :
        isRepeat(i) =
            IF isOverriddenParameterRepeat \/ userParameterRepeatDataList[i].isOverridden
            THEN userParameterRepeatDataList[i].isParameterRepeated
            ELSE AssetRepeats(i)

\* C7 witness: with only the model-wide flag set, parameter 0's repeat value
\* has just been set and decides the policy against the asset's bit.
C7_Witness ==
    /\ Called_("setRepeatFlagForParameterRepeat", <<0, TRUE>>)
    /\ isOverriddenParameterRepeat
    /\ ~userParameterRepeatDataList[0].isOverridden
    /\ ~AssetRepeats(0)
    /\ isRepeat(0)

\* No repeat-override flag setter has been called for the model or parameter i.
NoOverrideSetterCalled(i) ==
    -1 \notin repeatOverrideCalls /\ i \notin repeatOverrideCalls

\* C8 (as stated): in every state reached without a call of
\* setOverrideFlagForModelParameterRepeat or setOverrideFlagForParameterRepeat(i, .),
\* isRepeat(i) is the asset's repeat bit and setParameterValueByIndex(i, v)
\* wraps exactly when that bit is set.
C8_Original ==
    [][\A i \in ParameterIndices :
        (Ready /\ NoOverrideSetterCalled(i))
        => /\ isRepeat(i) = AssetRepeats(i)
           /\ \A v \in ParameterInputs :
                 Calls("setParameterValueByIndex", <<i, v, One>>)
                 => parameterValues'[i] =
                      IF AssetRepeats(i) THEN Wrapped(i, v) ELSE Clamped(i, v)]_vars

\* C8 (amended): in every state in which the model-wide repeat-override flag
\* and parameter i's own override flag are both false, isRepeat(i) is the
\* asset's repeat bit and setParameterValueByIndex(i, v) wraps exactly when
\* that bit is set.
C8_NoOverrideMeansAssetBit ==
    [][\A i \in ParameterIndices :
        (Ready /\ ~isOverriddenParameterRepeat
               /\ ~userParameterRepeatDataList[i].isOverridden)
        => /\ isRepeat(i) = AssetRepeats(i)
           /\ \A v \in ParameterInputs :
                 Calls("setParameterValueByIndex", <<i, v, One>>)
                 => parameterValues'[i] =
                      IF AssetRepeats(i) THEN Wrapped(i, v) ELSE Clamped(i, v)]_vars

\* C8 witness: with both flags of parameter 1 off and its repeat value off,
\* 13 has just been written and wrapped to 3, as the asset's bit asks.
C8_Witness ==
    /\ Called_("setParameterValueByIndex", <<1, 13, One>>)
    /\ ~isOverriddenParameterRepeat
    /\ userParameterRepeatDataList[1] = ParameterRepeatData(FALSE, FALSE)
    /\ AssetRepeats(1)
    /\ parameterValues[1] = 3

\* C9: right after setParameterValueByIndex(i, v, 1) (or the ById form) on a
\* real parameter, getParameterValueByIndex(i) is the wrapped value of v when
\* isRepeat(i) holds and the clamped value otherwise; range [0,10] and 13 give
\* 3 and 10; range [-30,30] and 45 give 30 on a fresh model and -15 once the
\* parameter's override flag and repeat value are set.
C9_SetReadsBackResolved ==
    [][/\ \A i \in ParameterIndices, v \in ParameterInputs :
            (Calls("setParameterValueByIndex", <<i, v, One>>)
              \/ Calls("setParameterValueById", <<model.parameters.ids[i], v, One>>))
            => getParameterValueByIndex(i)' =
                 IF isRepeat(i) THEN Wrapped(i, v) ELSE Clamped(i, v)
       /\ Calls("setParameterValueByIndex", <<1, 13, One>>)
            => getParameterValueByIndex(1)' = IF isRepeat(1) THEN 3 ELSE 10
       /\ (FreshlyInitialized
             /\ Calls("setParameterValueById", <<model.parameters.ids[0], 45, One>>))
            => getParameterValueByIndex(0)' = 30
       /\ (Calls("setParameterValueByIndex", <<0, 45, One>>)
             /\ userParameterRepeatDataList[0] = ParameterRepeatData(TRUE, TRUE))
            => getParameterValueByIndex(0)' = -15]_vars

\* C9 witness: parameter 0, with its override flag and repeat value set, has
\* just been written 45 and reads back -15.
C9_Witness ==
    /\ Called_("setParameterValueByIndex", <<0, 45, One>>)
    /\ userParameterRepeatDataList[0] = ParameterRepeatData(TRUE, TRUE)
    /\ getParameterValueByIndex(0) = -15

\* What a lookup of id must return and leave, given the id list, the real
\* count and the two absent tables before and after the call.
LookupAllocates(id, realIds, count, table, slots, tableAfter, slotsAfter, ret) ==
    IF id \in realIds
    THEN tableAfter = table /\ slotsAfter = slots /\ ret \in 0..(count - 1)
    ELSE IF id \in DOMAIN table
    THEN \* a later lookup: the same index, no slot created
         tableAfter = table /\ slotsAfter = slots /\ ret = table[id]
    ELSE \* the first lookup of the k-th unknown identifier, k - 1 allocated so far
         /\ ret = count + Cardinality(DOMAIN table)
         /\ DOMAIN tableAfter = DOMAIN table \cup {id}
         /\ tableAfter[id] = ret
         /\ ret \notin DOMAIN slots
         /\ DOMAIN slotsAfter = DOMAIN slots \cup {ret}
         /\ \A k \in DOMAIN slots : slotsAfter[k] = slots[k]

\* Allocated indices are kept, distinct, and one slot exists per identifier.
AllocationStable(table, slots, tableAfter, slotsAfter, count) ==
    /\ \A id \in DOMAIN table : id \in DOMAIN tableAfter /\ tableAfter[id] = table[id]
    /\ \A a, b \in DOMAIN tableAfter : a # b => tableAfter[a] # tableAfter[b]
    /\ DOMAIN slotsAfter = {tableAfter[id] : id \in DOMAIN tableAfter}
    /\ \A id \in DOMAIN tableAfter : tableAfter[id] >= count

\* C10: the first lookup of the k-th distinct unknown identifier returns
\* real count + (k - 1) and creates exactly one value slot; every later lookup
\* of it, after any other operations, returns the same index and creates no
\* slot; distinct unknown identifiers get distinct indices; getParameterCount
\* and getPartCount never change.  For parameters and for parts.
C10_AbsentAllocation ==
    [][/\ \A id \in RealParameterIds \cup UnknownParameterIds :
            Calls("getParameterIndex", <<id>>)
            => LookupAllocates(id, RealParameterIds, getParameterCount,
                               notExistParameterId, notExistParameterValues,
                               notExistParameterId', notExistParameterValues',
                               lastCall'.ret)
       /\ \A id \in RealPartIds \cup UnknownPartIds :
            Calls("getPartIndex", <<id>>)
            => LookupAllocates(id, RealPartIds, getPartCount,
                               notExistPartId, notExistPartOpacities,
                               notExistPartId', notExistPartOpacities',
                               lastCall'.ret)
       /\ AllocationStable(notExistParameterId, notExistParameterValues,
                           notExistParameterId', notExistParameterValues',
                           getParameterCount)
       /\ AllocationStable(notExistPartId, notExistPartOpacities,
                           notExistPartId', notExistPartOpacities', getPartCount)
       /\ getParameterCount' = getParameterCount
       /\ getPartCount' = getPartCount]_vars

\* C10 witness: two unknown parameter identifiers were allocated, a value was
\* written to the first, and a later lookup of the first has just returned
\* its index, the real count.
C10_Witness ==
    /\ Called_("getParameterIndex", <<901>>)
    /\ lastCall.ret = getParameterCount
    /\ DOMAIN notExistParameterId = {901, 902}
    /\ notExistParameterId[902] = getParameterCount + 1
    /\ notExistParameterValues[getParameterCount] = 45
    /\ DOMAIN notExistPartId # {}

\* The value held for an identifier the asset does not know: its slot, or the
\* default of a slot not allocated yet.
AbsentValueOf(table, slots, id) == IF id \in DOMAIN table THEN slots[table[id]] ELSE 0

\* C11: for an unknown parameter id, setParameterValueById(id, v, w) stores
\* exactly v when w = 1 and old*(1-w) + v*w otherwise, whatever the repeat
\* flags are (no clamp, no wrap), and a getParameterValueById(id) that follows
\* returns the stored value; for an unknown part id, setPartOpacityById(id, o)
\* followed by getPartOpacityById(id) returns o.
C11_AbsentGetSet ==
    [][/\ \A id \in AbsentParameterIds, in \in AbsentInputs :
            Calls("setParameterValueById", <<id, in[1], in[2]>>)
            => /\ AbsentValueOf(notExistParameterId', notExistParameterValues', id)
                    = IF in[2] = One THEN in[1]
                      ELSE (AbsentValueOf(notExistParameterId,
                                          notExistParameterValues, id)
                              * (in[2].den - in[2].num)
                              + in[1] * in[2].num) \div in[2].den
               /\ parameterValues' = parameterValues
       /\ \A id \in AbsentParameterIds :
            Calls("getParameterValueById", <<id>>)
            => /\ lastCall'.ret = AbsentValueOf(notExistParameterId,
                                                notExistParameterValues, id)
               /\ (lastCall.op = "setParameterValueById"
                     /\ lastCall.args[1] = id /\ lastCall.args[3] = One)
                  => lastCall'.ret = lastCall.args[2]
       /\ \A id \in AbsentPartIds, o \in {0, 1} :
            Calls("setPartOpacityById", <<id, o>>)
            => /\ AbsentValueOf(notExistPartId', notExistPartOpacities', id) = o
               /\ partOpacities' = partOpacities
       /\ \A id \in AbsentPartIds :
            Calls("getPartOpacityById", <<id>>)
            => /\ lastCall'.ret = AbsentValueOf(notExistPartId,
                                                notExistPartOpacities, id)
               /\ (lastCall.op = "setPartOpacityById" /\ lastCall.args[1] = id)
                  => lastCall'.ret = lastCall.args[2]]_vars

\* C11 witness: with the repeat override on and parameter 0 repeating, an
\* unknown parameter holds 45 (outside every range), another holds the blend
\* 33 = 22/2 + 44/2, an unknown part holds opacity 1, and a read of the first
\* has just returned 45.
C11_Witness ==
    /\ Called_("getParameterValueById", <<901>>)
    /\ lastCall.ret = 45
    /\ isOverriddenParameterRepeat
    /\ userParameterRepeatDataList[0].isParameterRepeated
    /\ AbsentValueOf(notExistParameterId, notExistParameterValues, 902) = 33
    /\ DOMAIN notExistPartId = {951}
    /\ AbsentValueOf(notExistPartId, notExistPartOpacities, 951) = 1

\* C12: setParameterValueByIndex, addParameterValueByIndex and
\* multiplyParameterValueByIndex on an absent parameter index, and
\* setPartOpacityByIndex on an absent part index, leave every entry of the
\* snapshot's parameter value array and part opacity array unchanged; update,
\* saveParameters and loadParameters move values only between the snapshot's
\* array and the saved buffer, never out of an absent slot.
C12_AbsentNeverReachesSnapshot ==
    [][/\ (lastCall'.op \in {"setParameterValueByIndex", "addParameterValueByIndex",
                            "multiplyParameterValueByIndex"}
            /\ lastCall'.args[1] \in AbsentParameterIndices)
          => /\ parameterValues' = parameterValues
             /\ partOpacities' = partOpacities
             /\ savedParameters' = savedParameters
             /\ model' = model
       /\ (lastCall'.op = "setPartOpacityByIndex"
            /\ lastCall'.args[1] \in AbsentPartIndices)
          => /\ parameterValues' = parameterValues
             /\ partOpacities' = partOpacities
             /\ savedParameters' = savedParameters
             /\ model' = model
       /\ (Ready /\ lastCall'.op \in {"update", "saveParameters", "loadParameters"})
          => /\ partOpacities' = partOpacities
             /\ model'.parts = model.parts
             /\ Ready' => model'.parameters.values = parameterValues'
             /\ DOMAIN parameterValues' = ParameterIndices
             /\ DOMAIN savedParameters' \subseteq ParameterIndices
             /\ \A i \in ParameterIndices :
                   parameterValues'[i] = parameterValues[i]
                     \/ (i \in DOMAIN savedParameters
                          /\ parameterValues'[i] = savedParameters[i])
             /\ \A i \in DOMAIN savedParameters' :
                   savedParameters'[i] = parameterValues[i]
                     \/ (i \in DOMAIN savedParameters
                          /\ savedParameters'[i] = savedParameters[i])
             /\ notExistParameterValues' = notExistParameterValues
             /\ notExistPartOpacities' = notExistPartOpacities]_vars

\* C12 witness: the absent parameter holds 45 and the absent part holds
\* opacity 0 written after a 1, a checkpoint was saved and has just been
\* loaded after a frame, and no snapshot value is 45.
C12_Witness ==
    /\ Called_("loadParameters", << >>)
    /\ model.updates > 0
    /\ getSize(savedParameters) = getParameterCount
    /\ \E i \in AbsentParameterIndices : notExistParameterValues[i] = 45
    /\ AbsentPartIndices # {}
    /\ \A i \in ParameterIndices :
          parameterValues[i] # 45 /\ savedParameters[i] # 45
    /\ parameterValues[0] = 30

\* C13: saveParameters() followed immediately by loadParameters() is a no-op
\* on parameter values: the save leaves every real parameter value as it was
\* and the load that follows it does too.
C13_SaveLoadNoOp ==
    [][/\ lastCall'.op = "saveParameters" => parameterValues' = parameterValues
       /\ (lastCall.op = "saveParameters" /\ lastCall'.op = "loadParameters")
          => parameterValues' = parameterValues]_vars

\* C13 witness: a load has just run on a checkpoint equal to the current
\* values, which are not the defaults, after an earlier checkpoint.
C13_Witness ==
    /\ Called_("loadParameters", << >>)
    /\ getSize(savedParameters) = getParameterCount
    /\ parameterValues = savedParameters
    /\ parameterValues[0] = -30
    /\ parameterValues[1] = 5

\* C14: loadParameters() sets each of the first min(parameter count, saved
\* count) real parameter values to the value captured by the most recent
\* saveParameters(), whatever was written in between, and leaves every other
\* value untouched; with no earlier save it changes nothing; a save leaves
\* exactly one entry per real parameter, the current value; only a save
\* changes the saved buffer, a load never does.
C14_CheckpointRestore ==
    [][/\ Calls("loadParameters", << >>)
          => /\ getSize(savedParameters) = 0 => parameterValues' = parameterValues
             /\ getSize(savedParameters) > 0
                  => \A i \in ParameterIndices :
                        parameterValues'[i] =
                           IF i < Smaller(getParameterCount, getSize(savedParameters))
                           THEN savedParameters[i] ELSE parameterValues[i]
             /\ savedParameters' = savedParameters
       /\ Calls("saveParameters", << >>)
          => /\ DOMAIN savedParameters' = ParameterIndices
             /\ \A i \in ParameterIndices : savedParameters'[i] = parameterValues[i]
       /\ ~Calls("saveParameters", << >>) => savedParameters' = savedParameters]_vars

\* C14 witness: a load has just restored the checkpoint (30, 10) and the
\* absent parameter still holds -45.
C14_Witness ==
    /\ Called_("loadParameters", << >>)
    /\ getSize(savedParameters) = getParameterCount
    /\ savedParameters[0] = 30 /\ savedParameters[1] = 10
    /\ parameterValues = savedParameters
    /\ \E i \in AbsentParameterIndices : notExistParameterValues[i] = -45

\* C15: each update() runs the engine's recomputation once and then resets
\* the dynamic flags, in that order, and leaves the id registries, every
\* override record and model-wide flag, the part-to-drawable topology, the
\* absent-identifier tables and the saved-parameter buffer as they were.
C15_UpdateFrame ==
    [][Calls("update", << >>)
       => /\ model'.updates = model.updates + 1
          /\ \A d \in DrawableIndices : model'.drawables.dynamicFlags[d] = 0
          /\ model' = [model EXCEPT !.updates = @ + 1]
          /\ UNCHANGED <<phase, parameterIds, partIds, drawableIds>>
          /\ UNCHANGED <<userParameterRepeatDataList, userMultiplyColors,
                         userScreenColors, userCullings, cullingObjects,
                         userPartMultiplyColors, userPartScreenColors>>
          /\ UNCHANGED <<isOverriddenParameterRepeat, isOverriddenModelMultiplyColors,
                         isOverriddenModelScreenColors, isOverriddenCullings>>
          /\ UNCHANGED partChildDrawables
          /\ UNCHANGED <<notExistPartId, notExistParameterId,
                         notExistParameterValues, notExistPartOpacities>>
          /\ UNCHANGED savedParameters]_vars

\* C15 witness: the second update has just run on an initialized model with
\* an overridden part, an overridden parameter, an absent parameter and part,
\* and a saved checkpoint.
C15_Witness ==
    /\ Called_("update", << >>)
    /\ model.updates > 1
    /\ Ready
    /\ userPartMultiplyColors[0].isOverridden
    /\ userParameterRepeatDataList[0].isOverridden
    /\ isOverriddenCullings
    /\ getSize(notExistParameterId) = 1 /\ getSize(notExistPartId) = 1
    /\ getSize(savedParameters) = getParameterCount
    /\ getSize(partChildDrawables[0]) = 1

\* The child list of every part holds exactly the drawables whose parent is
\* that part, each once, in ascending order; an orphan is in no list.
TopologyHolds ==
    /\ DOMAIN partChildDrawables = PartIndices
    /\ \A p \in PartIndices :
          LET list == partChildDrawables[p]
          IN  /\ DOMAIN list = 0..(Cardinality(DrawablesOfPart(p)) - 1)
              /\ {list[k] : k \in DOMAIN list} = DrawablesOfPart(p)
              /\ \A j, k \in DOMAIN list : j < k => list[j] < list[k]
    /\ \A d \in DrawableIndices :
          model.drawables.parentPartIndices[d] < 0
          => \A p \in PartIndices :
                \A k \in DOMAIN partChildDrawables[p] : partChildDrawables[p][k] # d

\* C16: after initialize(), for every part p the child list of p contains
\* exactly the drawables d with parent(d) = p, each once and in ascending
\* index order; a drawable with a negative parent index is in no list; and no
\* operation after initialize() changes any child list.  initialize() is the
\* one call of the lifecycle; the operations after it are all the others.
C16_Topology ==
    [][/\ InitializedOnce' => TopologyHolds'
       /\ (Initialized /\ lastCall'.op # "initialize")
            => partChildDrawables' = partChildDrawables]_vars

\* C16 witness: drawables 0 and 2 belong to part 1, drawable 1 to no part,
\* and part 1 has just been overridden after initialize().
C16_Witness ==
    /\ Called_("setOverrideColorForPartMultiplyColors", <<1, TRUE>>)
    /\ getSize(partChildDrawables[0]) = 0
    /\ getSize(partChildDrawables[1]) = 2
    /\ partChildDrawables[1][0] = 0 /\ partChildDrawables[1][1] = 2
    /\ model.drawables.parentPartIndices[1] < 0
    /\ userMultiplyColors[2].isOverridden /\ ~userMultiplyColors[1].isOverridden

\* The lists of the override store and the id lists have one entry per real
\* parameter, drawable or part.
RecordSizesHold ==
    /\ DOMAIN userParameterRepeatDataList = ParameterIndices
    /\ DOMAIN userMultiplyColors = DrawableIndices
    /\ DOMAIN userScreenColors = DrawableIndices
    /\ DOMAIN userCullings = DrawableIndices
    /\ DOMAIN userPartMultiplyColors = PartIndices
    /\ DOMAIN userPartScreenColors = PartIndices
    /\ DOMAIN partChildDrawables = PartIndices
    /\ DOMAIN parameterIds = ParameterIndices
    /\ DOMAIN partIds = PartIndices
    /\ DOMAIN drawableIds = DrawableIndices

\* C17: after a single initialize() there is exactly one record per real
\* entity: the repeat-override list has parameter-count entries, the multiply,
\* screen and culling lists have drawable-count entries, the part multiply and
\* screen lists and the child-list table have part-count entries, and the
\* three id lists match their counts; these sizes stay the same after every
\* later operation (set/add/multiply, override setters, absent-id lookups,
\* save/load, update).
C17_SizesAfterOperations ==
    (Ready /\ InitializedOnce) => RecordSizesHold

\* C17 witness: on a model initialized once, with two drawables, two
\* parameters and one part, an absent parameter and an absent part were
\* looked up, override flags were set, a value was written, a frame ran and
\* the checkpoint has just been loaded; the lists have the sizes of the asset.
C17_Witness ==
    /\ Called_("loadParameters", << >>)
    /\ Ready /\ InitializedOnce
    /\ getDrawableCount = 2 /\ getParameterCount = 2 /\ getPartCount = 1
    /\ getSize(notExistParameterId) = 1 /\ getSize(notExistPartId) = 1
    /\ model.updates > 0
    /\ getSize(savedParameters) = getParameterCount
    /\ parameterValues[0] # 0
    /\ userPartMultiplyColors[0].isOverridden
    /\ userParameterRepeatDataList[0].isOverridden
    /\ getSize(userCullings) = 2 /\ getSize(parameterIds) = 2
    /\ RecordSizesHold

\* Every isOverridden flag of the store and every override value in it.
AllOverrideFlags ==
    <<isOverriddenParameterRepeat, isOverriddenModelMultiplyColors,
      isOverriddenModelScreenColors, isOverriddenCullings,
      [i \in ParameterIndices |-> userParameterRepeatDataList[i].isOverridden],
      [d \in DrawableIndices |-> userMultiplyColors[d].isOverridden],
      [d \in DrawableIndices |-> userScreenColors[d].isOverridden],
      [d \in DrawableIndices |-> cullingObjects[userCullings[d]].isOverridden],
      [p \in PartIndices |-> userPartMultiplyColors[p].isOverridden],
      [p \in PartIndices |-> userPartScreenColors[p].isOverridden]>>
AllOverrideValues ==
    <<[i \in ParameterIndices |-> userParameterRepeatDataList[i].isParameterRepeated],
      [d \in DrawableIndices |-> userMultiplyColors[d].color],
      [d \in DrawableIndices |-> userScreenColors[d].color],
      [d \in DrawableIndices |-> cullingObjects[userCullings[d]].isCulling],
      [p \in PartIndices |-> userPartMultiplyColors[p].color],
      [p \in PartIndices |-> userPartScreenColors[p].color]>>
ValueSetters ==
    {"setMultiplyColorByRGBA", "setScreenColorByRGBA", "setDrawableCulling",
     "setRepeatFlagForParameterRepeat", "setPartMultiplyColorByRGBA",
     "setPartScreenColorByRGBA"}
FlagSetters ==
    {"setOverrideFlagForDrawableMultiplyColors", "setOverrideFlagForDrawableScreenColors",
     "setOverrideFlagForDrawableCullings", "setOverrideFlagForParameterRepeat",
     "setOverrideFlagForModelMultiplyColors", "setOverrideFlagForModelScreenColors",
     "setOverrideFlagForModelCullings", "setOverrideFlagForModelParameterRepeat"}

\* C18: setMultiplyColorByRGBA, setScreenColorByRGBA, setDrawableCulling,
\* setRepeatFlagForParameterRepeat, setPartMultiplyColorByRGBA and
\* setPartScreenColorByRGBA never change any isOverridden flag, and the
\* per-drawable, per-parameter and model-wide override-flag setters never
\* change any stored override colour, isCulling or isParameterRepeated value.
C18_FlagsAndValuesIndependent ==
    [][/\ (Initialized /\ lastCall'.op \in ValueSetters)
            => AllOverrideFlags' = AllOverrideFlags
       /\ (Initialized /\ lastCall'.op \in FlagSetters)
            => AllOverrideValues' = AllOverrideValues]_vars

\* C18 witness: with part 0 overridden, its colour has just been written and
\* cascaded to drawable 0, whose own flag was cleared meanwhile and stays
\* clear; drawable 0 keeps its culling value under a raised culling flag.
C18_Witness ==
    /\ Called_("setPartMultiplyColorByRGBA", <<0, 1, 0, 0, 1>>)
    /\ userPartMultiplyColors[0].isOverridden
    /\ userMultiplyColors[0] = DrawableColorData(FALSE, Red)
    /\ cullingObjects[userCullings[0]] = DrawableCullingData(TRUE, TRUE)
    /\ userParameterRepeatDataList[0] = ParameterRepeatData(TRUE, TRUE)
    /\ isOverriddenModelScreenColors

\* The state setParameterValueByIndex(i, x, 1) leaves: the value arrays it
\* computes, x resolved by the policy of i (none for an absent index), the
\* snapshot's value array, which is the same array, and nothing else changed.
SameAsSet(i, x) ==
    LET call == setParameterValueByIndex_(i, x, One, notExistParameterValues)
    IN  /\ parameterValues' = call.values
        /\ notExistParameterValues' = call.absent
        /\ getParameterValueByIndex(i)' =
              IF i \in AbsentParameterIndices THEN x
              ELSE IF isRepeat(i) THEN Wrapped(i, x) ELSE Clamped(i, x)
        /\ Ready => model'.parameters.values = parameterValues'
        /\ [model' EXCEPT !.parameters.values = model.parameters.values] = model
        /\ UNCHANGED <<savedParameters, isOverriddenParameterRepeat,
                       userParameterRepeatDataList, notExistParameterId,
                       notExistPartId, notExistPartOpacities, partOpacities>>

\* C19: addParameterValueByIndex(i, v, w) leaves the same state as
\* setParameterValueByIndex(i, getParameterValueByIndex(i) + v*w, 1), and
\* multiplyParameterValueByIndex(i, v, w) the same state as
\* setParameterValueByIndex(i, getParameterValueByIndex(i) * (1 + (v-1)*w), 1),
\* for real and absent indices alike, clamp or repeat policy included.
C19_AddMultiplyViaSet ==
    [][\A i \in ParameterIndices \cup AbsentParameterIndices, w \in {One, Half} :
          /\ \A v \in {-45, 10, 45} :
                Calls("addParameterValueByIndex", <<i, v, w>>)
                => SameAsSet(i, getParameterValueByIndex(i) + (v * w.num) \div w.den)
          /\ \A v \in {-1, 3} :
                Calls("multiplyParameterValueByIndex", <<i, v, w>>)
                => SameAsSet(i, getParameterValueByIndex(i)
                                  * (1 + ((v - 1) * w.num) \div w.den))]_vars

\* C19 witness: under the asset's repeat policy, 10 * 1/2 has just been
\* added to parameter 1, which holds 5, while parameter 0 holds -30 after a
\* multiplication and the absent parameter holds -45.
C19_Witness ==
    /\ Called_("addParameterValueByIndex", <<1, 10, Half>>)
    /\ ~isOverriddenParameterRepeat
    /\ isRepeat(1)
    /\ parameterValues[1] = 5
    /\ parameterValues[0] = -30
    /\ \E i \in AbsentParameterIndices : notExistParameterValues[i] = -45

\* C20: for a real parameter with max = min, setParameterValueByIndex(i, v, 1)
\* under the repeat policy stores max when v > max and min when v < min; the
\* undefined remainder is never written into the snapshot's value array, whose
\* entries stay numbers of the range.
C20_DegenerateRange ==
    [][\A i \in ParameterIndices, v \in ParameterInputs :
          (Calls("setParameterValueByIndex", <<i, v, One>>)
             /\ isRepeat(i) /\ Max(i) = Min(i))
          => /\ v > Max(i) => parameterValues'[i] = Max(i)
             /\ v < Min(i) => parameterValues'[i] = Min(i)
             /\ parameterValues'[i] \in Min(i)..Max(i)
             /\ \A j \in ParameterIndices : j # i
                   => parameterValues'[j] = parameterValues[j]]_vars

\* C20 witness: parameter 0 has the range [5, 5] and repeats by its own
\* override; -45 has just been written to it and it holds 5.
C20_Witness ==
    /\ Called_("setParameterValueByIndex", <<0, -45, One>>)
    /\ Min(0) = 5 /\ Max(0) = 5
    /\ userParameterRepeatDataList[0] = ParameterRepeatData(TRUE, TRUE)
    /\ isRepeat(0)
    /\ parameterValues[0] = 5

\* Everything the model holds besides the reference to the snapshot.
RemainingState ==
    <<parameterIds, partIds, drawableIds, partChildDrawables, parameterValues,
      partOpacities, savedParameters, isOverriddenParameterRepeat,
      isOverriddenModelMultiplyColors, isOverriddenModelScreenColors,
      isOverriddenCullings, userParameterRepeatDataList, userMultiplyColors,
      userScreenColors, userCullings, cullingObjects, userPartMultiplyColors,
      userPartScreenColors, notExistPartId, notExistParameterId,
      notExistParameterValues, notExistPartOpacities>>

\* C21: the first release() invokes the snapshot's release once and drops the
\* reference; every later release() and every later update() fails visibly
\* without invoking the snapshot's release or recomputation again and without
\* changing any remaining state; the snapshot is released at most once.
C21_ReleaseOnce ==
    [][/\ (lastCall'.op = "release" /\ phase # "released")
          => /\ ~lastCall'.threw
             /\ model' = [model EXCEPT !.releases = @ + 1]
             /\ phase' = "released"
             /\ RemainingState' = RemainingState
       /\ (lastCall'.op \in {"release", "update"} /\ phase = "released")
          => /\ lastCall'.threw
             /\ lastCall'.ret = TypeError
             /\ model' = model /\ phase' = phase
             /\ RemainingState' = RemainingState
       /\ model'.releases <= 1]_vars

\* C21 witness: a model that was initialized, written to, saved and updated
\* has been released, and a second release() has just failed.
C21_Witness ==
    /\ Failed_("release", << >>)
    /\ lastCall.ret = TypeError
    /\ phase = "released"
    /\ model.releases = 1
    /\ model.updates > 0
    /\ getSize(savedParameters) = getParameterCount
    /\ parameterValues[0] = 30
    /\ userPartMultiplyColors[0].isOverridden

\* An index that is neither a real one nor an allocated absent one.
OutOfRange(index, count, absentValues) ==
    /\ index \notin 0..(count - 1)
    /\ index \notin DOMAIN absentValues

ValueTables ==
    <<parameterValues, partOpacities, notExistParameterValues, notExistPartOpacities>>

\* C22: setParameterValueByIndex, getParameterValueByIndex, setPartOpacityByIndex
\* or getPartOpacityByIndex with an index that is neither in [0, count) nor an
\* allocated absent index fails its range assertion: it returns no normal
\* value and leaves every parameter value, part opacity and absent slot as it
\* was, before initialize() as well as after it, and for a negative index
\* also once the model is released.  With an index past the count a released
\* model still returns no value and changes nothing, but what stops the call
\* is the read of the count through the null reference.
C22_OutOfRangeFailFast ==
    [][\A i \in IndexInputs :
          /\ (/\ lastCall'.op \in {"setParameterValueByIndex", "getParameterValueByIndex"}
              /\ lastCall'.args[1] = i
              /\ OutOfRange(i, model.parameters.count, notExistParameterValues))
             => /\ lastCall'.threw
                /\ (phase # "released" \/ i < 0) => lastCall'.ret = AssertionFailure
                /\ (phase = "released" /\ i >= 0) => lastCall'.ret = TypeError
                /\ ValueTables' = ValueTables
                /\ model' = model
          /\ (/\ lastCall'.op \in {"setPartOpacityByIndex", "getPartOpacityByIndex"}
              /\ lastCall'.args[1] = i
              /\ OutOfRange(i, model.parts.count, notExistPartOpacities))
             => /\ lastCall'.threw
                /\ (phase # "released" \/ i < 0) => lastCall'.ret = AssertionFailure
                /\ (phase = "released" /\ i >= 0) => lastCall'.ret = TypeError
                /\ ValueTables' = ValueTables
                /\ model' = model]_vars

\* C22 witness: with an absent parameter and an absent part allocated and a
\* real value written, a part opacity has just been set through an index
\* past both the real and the absent ones.
C22_Witness ==
    /\ Failed_("setPartOpacityByIndex", <<5, 0>>)
    /\ lastCall.ret = AssertionFailure
    /\ getSize(notExistPartOpacities) = 1
    /\ getSize(notExistParameterValues) = 1
    /\ Ready
    /\ parameterValues[0] = 30

\* C23: after initialize, looking up the identifier of a real index gives
\* that index back, for parameters, parts and drawables, also when absent
\* identifiers have been allocated, and the lookup allocates nothing.
C23_IdIndexRoundTrip ==
    Ready =>
      /\ \A i \in ParameterIndices :
            LET call == getParameterIndex_(getParameterId(i))
            IN  /\ call.ret = i
                /\ call.ids = notExistParameterId
                /\ call.values = notExistParameterValues
      /\ \A i \in PartIndices :
            LET call == getPartIndex_(getPartId(i))
            IN  /\ call.ret = i
                /\ call.ids = notExistPartId
                /\ call.values = notExistPartOpacities
      /\ \A i \in DrawableIndices : getDrawableIndex_(getDrawableId(i)) = i

\* C23 witness: with two absent parameters and an absent part allocated, the
\* identifier of the second parameter has just been looked up and gave 1.
C23_Witness ==
    /\ Ready
    /\ Called_("getParameterIndex", <<getParameterId(1)>>)
    /\ lastCall.ret = 1
    /\ getSize(notExistParameterId) = 2
    /\ getSize(notExistPartId) = 1

\* The sizes of the drawable tables.
DrawableTableSizes ==
    <<getDrawableCount, getSize(drawableIds), getSize(userMultiplyColors),
      getSize(userScreenColors), getSize(userCullings)>>

\* C29: getDrawableIndex of an identifier the asset does not have returns -1
\* on every call and changes no state: nothing is allocated, and the drawable
\* count and every override list keep their size.
C29_UnknownDrawable ==
    [][\A id \in UnknownDrawableIds :
          Calls("getDrawableIndex", <<id>>)
            => /\ lastCall'.ret = -1
               /\ UNCHANGED <<registryVars, paramVars, absentVars, multiplyVars,
                              screenVars, cullingVars>>
               /\ DrawableTableSizes' = DrawableTableSizes]_vars

\* C29 witness: an unknown drawable identifier has just been looked up in a
\* model that holds absent parameters, an absent part and a drawable override.
C29_Witness ==
    /\ Called_("getDrawableIndex", <<981>>)
    /\ lastCall.ret = -1
    /\ getSize(notExistParameterId) = 2
    /\ getSize(notExistPartId) = 1
    /\ Ready
    /\ userMultiplyColors[0].isOverridden

\* C24: for a range with min < max and span = max - min,
\* getParameterRepeatValue(i, v) returns v when v is in range,
\* min + ((v - max) mod span) when v > max and max - ((min - v) mod span) when
\* v < min; the result lies in [min, max] and differs from v by a multiple of
\* span; a value k spans above max maps to min and one k spans below min maps
\* to max.
C24_WrapResult ==
    (lastCall.op = "getParameterRepeatValue" /\ ~lastCall.threw) =>
      LET i == lastCall.args[1]
          v == lastCall.args[2]
          ret == lastCall.ret
          span == Max(i) - Min(i)
      IN  Min(i) < Max(i) =>
            /\ ret = IF v > Max(i) THEN Min(i) + ((v - Max(i)) % span)
                     ELSE IF v < Min(i) THEN Max(i) - ((Min(i) - v) % span)
                     ELSE v
            /\ ret \in Min(i)..Max(i)
            /\ (v - ret) % span = 0
            /\ \A k \in 1..(2 * MaxWrapInput) :
                  /\ v = Max(i) + k * span => ret = Min(i)
                  /\ v = Min(i) - k * span => ret = Max(i)

\* C24 witness: in the range [0, 10] the value 30, two spans above the
\* maximum, has just been wrapped to the minimum.
C24_Witness ==
    /\ Called_("getParameterRepeatValue", <<0, 30>>)
    /\ Min(0) = 0 /\ Max(0) = 10
    /\ lastCall.ret = 0

\* The value the policy in force resolves v to for real parameter i.
Resolved(i, v) == IF isRepeat(i) THEN Wrapped(i, v) ELSE Clamped(i, v)

\* C25: setParameterValueByIndex(i, v, w) on a real parameter stores
\* c * (1 - w) + r * w, where c is the value before the call and r is v
\* resolved by the policy in force; w = 1 stores r and w = 0 leaves c.
C25_ResolveThenBlend ==
    [][\A i \in ParameterIndices, v \in {-45, 13, 45}, w \in BlendWeights :
          Calls("setParameterValueByIndex", <<i, v, w>>)
            => /\ parameterValues'[i] * w.den =
                    parameterValues[i] * (w.den - w.num) + Resolved(i, v) * w.num
               /\ w = One => parameterValues'[i] = Resolved(i, v)
               /\ w = Zero => parameterValues'[i] = parameterValues[i]]_vars

\* C25 witness: parameter 0, holding 0 under the clamp policy, has just been
\* written 45 with weight one half and holds 15, half way to the clamped 30.
C25_Witness ==
    /\ Called_("setParameterValueByIndex", <<0, 45, Half>>)
    /\ ~isRepeat(0)
    /\ parameterValues[0] = 15

\* C26: the real parameters start inside their ranges, and after any sequence
\* of weighted sets by index or by identifier, adds, multiplies, saves, loads
\* and repeat-flag changes every real value lies in [min, max].
C26_RangeInvariant ==
    Ready => \A i \in ParameterIndices :
        /\ Min(i) <= Max(i)
        /\ parameterValues[i] \in Min(i)..Max(i)

\* C26 witness: a checkpoint taken at the maximum has just been loaded back
\* over a value that a multiply had wrapped or clamped to another place.
C26_Witness ==
    /\ Called_("loadParameters", << >>)
    /\ getSize(savedParameters) = getParameterCount
    /\ savedParameters[0] = 30
    /\ parameterValues[0] = 30
    /\ userParameterRepeatDataList[0] = ParameterRepeatData(TRUE, TRUE)
    /\ ~isOverriddenParameterRepeat

\* The records a part-level write to part p must leave alone, for one of the
\* two colour kinds: every other part's record and every drawable outside p.
OutsidePart(p, partColors, drawableColors) ==
    <<[q \in PartIndices \ {p} |-> partColors[q]],
      [d \in DrawableIndices \ DrawablesOfPart(p) |-> drawableColors[d]]>>

\* C27: a part-level multiply operation on part p changes only p's multiply
\* record and the multiply records of the drawables whose parent is p; every
\* screen record, every culling record, every other part's records (also of
\* a part whose parent part is p) and the multiply records of the other
\* drawables stay as they were.  The same holds with screen for multiply.
C27_CascadeScope ==
    [][\A p \in PartIndices :
          /\ (/\ lastCall'.op \in {"setPartMultiplyColorByRGBA",
                                   "setOverrideColorForPartMultiplyColors"}
              /\ lastCall'.args[1] = p
              /\ ~lastCall'.threw)
             => /\ OutsidePart(p, userPartMultiplyColors, userMultiplyColors)' =
                     OutsidePart(p, userPartMultiplyColors, userMultiplyColors)
                /\ UNCHANGED <<screenVars, cullingVars, isOverriddenModelMultiplyColors>>
          /\ (/\ lastCall'.op \in {"setPartScreenColorByRGBA",
                                   "setOverrideColorForPartScreenColors"}
              /\ lastCall'.args[1] = p
              /\ ~lastCall'.threw)
             => /\ OutsidePart(p, userPartScreenColors, userScreenColors)' =
                     OutsidePart(p, userPartScreenColors, userScreenColors)
                /\ UNCHANGED <<multiplyVars, cullingVars, isOverriddenModelScreenColors>>]_vars

\* C27 witness: part 0, with its multiply override on, has just been given a
\* colour that reached its drawables 0 and 2, while part 1, whose parent part
\* is part 0, and its drawable 1 hold another colour under their own override.
C27_Witness ==
    /\ Called_("setPartMultiplyColorByRGBA", <<0, 1, 0, 0, 1>>)
    /\ model.parts.parentIndices[1] = 0
    /\ userPartMultiplyColors[0] = PartColorData(TRUE, TextureColor(1, 0, 0, 1))
    /\ userMultiplyColors[0].color = TextureColor(1, 0, 0, 1)
    /\ userMultiplyColors[2].color = TextureColor(1, 0, 0, 1)
    /\ userPartMultiplyColors[1] = PartColorData(TRUE, TextureColor(0, 1, 0, 0))
    /\ userMultiplyColors[1] = DrawableColorData(TRUE, TextureColor(0, 1, 0, 0))
    /\ userPartScreenColors[0].isOverridden

\* The part record and the child records left by writing colour c to part p
\* and then enabling its override, and by the two calls the other way round.
ColorThenEnable(p, c, partColors, drawableColors) ==
    LET colored == setPartColor(p, c.r, c.g, c.b, c.a, partColors, drawableColors)
    IN  setOverrideColorForPartColors(
            p, TRUE, [colored.partColors EXCEPT ![p].isOverridden = TRUE],
            colored.drawableColors)
EnableThenColor(p, c, partColors, drawableColors) ==
    LET enabled == setOverrideColorForPartColors(
                       p, TRUE, [partColors EXCEPT ![p].isOverridden = TRUE],
                       drawableColors)
    IN  setPartColor(p, c.r, c.g, c.b, c.a, enabled.partColors, enabled.drawableColors)
SamePartAndChildren(p, x, y) ==
    /\ x.partColors[p] = y.partColors[p]
    /\ \A d \in DrawablesOfPart(p) : x.drawableColors[d] = y.drawableColors[d]

\* C28: from any state, setPartMultiplyColorByRGBA(p, c) followed by
\* setOverrideColorForPartMultiplyColors(p, true) leaves the same part record
\* and the same child flags and colours as the two calls in the other order;
\* likewise for screen.
C28_ColorAndEnableCommute ==
    Ready => \A p \in PartIndices, c \in CascadeColors :
        /\ SamePartAndChildren(p,
               ColorThenEnable(p, c, userPartMultiplyColors, userMultiplyColors),
               EnableThenColor(p, c, userPartMultiplyColors, userMultiplyColors))
        /\ SamePartAndChildren(p,
               ColorThenEnable(p, c, userPartScreenColors, userScreenColors),
               EnableThenColor(p, c, userPartScreenColors, userScreenColors))

\* C28 witness: part 0's multiply override has just been enabled after the
\* part was given a colour while the override was off; the part and its
\* drawables hold that colour under the flag, as the other order leaves them.
C28_Witness ==
    /\ Called_("setOverrideColorForPartMultiplyColors", <<0, TRUE>>)
    /\ userPartMultiplyColors[0] = PartColorData(TRUE, TextureColor(0, 1, 0, 0))
    /\ \A d \in DrawablesOfPart(0) :
          userMultiplyColors[d] = DrawableColorData(TRUE, TextureColor(0, 1, 0, 0))
    /\ userPartMultiplyColors[1].color = TextureColor(1, 0, 0, 1)
    /\ SamePartAndChildren(0,
           [partColors |-> userPartMultiplyColors, drawableColors |-> userMultiplyColors],
           EnableThenColor(0, TextureColor(0, 1, 0, 0),
                           userPartMultiplyColors, userMultiplyColors))

\* The state C30 describes.
InitialStateHolds ==
    /\ ~isOverriddenModelMultiplyColors
    /\ ~isOverriddenModelScreenColors
    /\ ~isOverriddenCullings
    /\ isOverriddenParameterRepeat
    /\ DOMAIN userParameterRepeatDataList = ParameterIndices
    /\ \A i \in ParameterIndices :
          userParameterRepeatDataList[i] = ParameterRepeatData(FALSE, FALSE)
    /\ DOMAIN userMultiplyColors = DrawableIndices
    /\ DOMAIN userScreenColors = DrawableIndices
    /\ DOMAIN userCullings = DrawableIndices
    /\ \A d \in DrawableIndices :
          /\ userMultiplyColors[d] = DrawableColorData(FALSE, TextureColor(1, 1, 1, 1))
          /\ userScreenColors[d] = DrawableColorData(FALSE, TextureColor(0, 0, 0, 1))
          /\ cullingObjects[userCullings[d]] = DrawableCullingData(FALSE, FALSE)
    /\ DOMAIN userPartMultiplyColors = PartIndices
    /\ DOMAIN userPartScreenColors = PartIndices
    /\ \A q \in PartIndices :
          /\ userPartMultiplyColors[q] = PartColorData(FALSE, TextureColor(1, 1, 1, 1))
          /\ userPartScreenColors[q] = PartColorData(FALSE, TextureColor(0, 0, 0, 1))
    /\ notExistParameterId = EmptyMap /\ notExistParameterValues = EmptyMap
    /\ notExistPartId = EmptyMap /\ notExistPartOpacities = EmptyMap
    /\ savedParameters = EmptyVector
    /\ \A d \in DrawableIndices :
          /\ getMultiplyColor(d) = model.drawables.multiplyColors[d]
          /\ getScreenColor(d) = model.drawables.screenColors[d]
          /\ getDrawableCulling(d) =
                ~hasIsDoubleSidedBit(model.drawables.constantFlags[d])
    /\ \A i \in ParameterIndices : ~isRepeat(i)

\* C30: right after the constructor and initialize the model-wide multiply,
\* screen and culling flags are false and the model-wide parameter-repeat
\* override is true; every parameter record is {false, false}; every
\* drawable and part multiply record is {false, (1,1,1,1)} and screen record
\* {false, (0,0,0,1)}; every culling record is {false, false}; the absent
\* tables and the saved buffer are empty; so getMultiplyColor, getScreenColor
\* and getDrawableCulling return the asset's values and isRepeat(i) is false
\* for every real parameter.
C30_InitialState ==
    [][(lastCall.op = "constructor" /\ Calls("initialize", << >>))
          => InitialStateHolds']_vars

\* C30 witness: initialize has just run on an asset whose second parameter
\* is authored as repeating and whose second drawable is double-sided.
C30_Witness ==
    /\ FreshlyInitialized
    /\ InitialStateHolds
    /\ AssetRepeats(1)
    /\ ~isRepeat(1)
    /\ hasIsDoubleSidedBit(model.drawables.constantFlags[1])
    /\ ~getDrawableCulling(1)
    /\ getDrawableCulling(0)

====
